---------------------------- MODULE Spec2Model ----------------------------
(***************************************************************************)
(* License ledger and credit meter of the extension backend.               *)
(*                                                                         *)
(* Every HTTP handler is a process that runs from one store call to the    *)
(* next: the JavaScript between two awaits runs without interruption, and  *)
(* each awaited supabase call is executed by the store at one instant.     *)
(* One action of the model is therefore one store call of a handler (or    *)
(* the arrival of the request) together with the code that follows it up   *)
(* to the next store call or to the response.                              *)
(*                                                                         *)
(* Strings that the code cuts (license keys) are sequences of characters;  *)
(* device ids, endpoint names and reasons are plain strings.               *)
(***************************************************************************)
EXTENDS Integers, Sequences, FiniteSets, TLC

(***************************************************************************)
(* Bounds of the model.                                                    *)
(***************************************************************************)
\* number of validate requests in one behaviour of the ledger
LedgerRequests == 3
\* number of charge and refill calls in one behaviour of the meter
MeterRequests == 3
\* number of requests in one behaviour of the whole backend
MaxRequests == 2
\* credits_remaining a freshly inserted device_bindings row gets from the
\* store's column default (the insert of validate.js names no credit column)
DefaultCredits == 6

\* number of config-share requests in one behaviour of the config-share store
ShareRequests == 2

\* number of requests in one behaviour of a session
SessionRequests == 2
\* number of requests in one behaviour of the token-gated handlers
GateRequests == 2
\* charges on the meter whose activity_logs inserts settle
LogRequests == 2
\* refills by the administrator, with a charge among them
AdminRequests == 2
\* browse requests, with an upload or a change of visibility among them
BrowseRequests == 2
\* requests that present a token some minutes after it was minted
ExpiryRequests == 2
\* previews and copies of one config
CountRequests == 3
\* charges and refills on a table of several bindings
FrameRequests == 2
\* community requests on a table of several bindings
TrackRequests == 2

Max(a, b) == IF a >= b THEN a ELSE b

Requests ==
  1..Max(Max(MaxRequests, Max(ShareRequests, Max(SessionRequests, GateRequests))),
         Max(Max(LedgerRequests, MeterRequests), Max(Max(LogRequests, AdminRequests), Max(Max(BrowseRequests, ExpiryRequests),
                                                              Max(CountRequests, Max(FrameRequests, TrackRequests))))))

(***************************************************************************)
(* Program constants.                                                      *)
(***************************************************************************)
\* licenseKey.substring(0, 8)
KeyPrefixLen == 8
\* .setExpirationTime('5m'), in minutes
TokenLifetime == 5

Dots == <<".", ".", ".">>
KeyStem == <<"L", "I", "C", "-", "0", "0", "0", "0">>

\* License keys of the deployment.  K1 is a good key, KF a good key that
\* happens to end in "...", KR a revoked key, KX a key that was revoked and
\* later dropped from the allowlist, KU a key nobody provisioned.
K1 == KeyStem \o <<"1">>
KF == KeyStem \o Dots
KR == KeyStem \o <<"2">>
KX == KeyStem \o <<"3">>
KU == KeyStem \o <<"4">>
\* a key that shares no prefix with the others
KO == <<"O", "T", "H", "-", "0", "0", "0", "0", "1">>
NoKey == << >>

D1 == "D1"
D2 == "D2"
NoDevice == ""

\* process.env.LICENSE_KEYS / process.env.REVOKED_KEYS of the first handler
VALID_LICENSE_KEYS == {K1, KF, KR}
revokedKeys == {KR, KX}

\* the license_keys table read by the second handler: key -> row
license_keys == [k \in {K1, KF, KR} |-> [key |-> k, revoked |-> (k = KR)]]

\* const CREDIT_COSTS
CREDIT_COSTS ==
  [e \in {"validate", "supabase", "supabase/recent", "twitter", "community", "sheets"} |->
     CASE e = "validate" -> 1
       [] e = "supabase" -> 20
       [] e = "supabase/recent" -> 10
       [] e = "twitter" -> 5
       [] e = "community" -> 5
       [] e = "sheets" -> 20]

VARIABLES
  masterKillSwitch,  \* process.env.MASTER_KILL_SWITCH === 'true'
  device_bindings,   \* the device_bindings table: a set of rows
  pc,                \* pc[p]: the store call request p waits for
  args,              \* args[p]: the request as received
  local,             \* local[p]: the handler's local variables
  resp,              \* resp[p]: the response sent (or the value returned)
  shared_configs,    \* the shared_configs table: a set of rows
  activity_logs,     \* the activity_logs table: a set of rows
  log_inflight       \* activity_logs inserts dispatched and not yet settled

vars ==
  <<masterKillSwitch, device_bindings, pc, args, local, resp, shared_configs, activity_logs,
    log_inflight>>

\* what the ledger, the meter and the proxies never touch
shareVars == <<shared_configs>>
logVars == <<activity_logs, log_inflight>>

(***************************************************************************)
(* Values.                                                                 *)
(***************************************************************************)
\* no row of device_bindings (a time is the number of the call that took it;
\* 0 is the store's null, or a time before the calls)
NoRow ==
  [license_key |-> NoKey, device_id |-> NoDevice, credits_remaining |-> 0,
   total_credits_used |-> 0, last_endpoint |-> "null", last_seen |-> 0,
   last_credit_usage |-> 0]

\* no token; a token is its payload (the claims licenseKey, deviceId,
\* device_id and purpose), the key it was signed with, and whether the
\* verifier's clock is before ("fresh") or after ("expired") its exp claim
NoToken ==
  [licenseKey |-> NoKey, deviceId |-> NoDevice, device_id |-> NoDevice, purpose |-> "none",
   sig |-> "none", age |-> "fresh"]

NoConfigData == [name |-> "none", chars |-> 0, bytes |-> 0]

\* no row of shared_configs
NoConfig ==
  [id |-> "", device_id |-> NoDevice, is_public |-> FALSE, config_data |-> NoConfigData,
   config_size_bytes |-> 0, view_count |-> 0, copy_count |-> 0, last_copied_at |-> 0,
   created_at |-> 0]

NoArgs ==
  [method |-> "GET", key |-> NoKey, deviceId |-> NoDevice,
   endpoint |-> "", success |-> TRUE, amount |-> 0, token |-> NoToken,
   communityId |-> "", handler |-> "", action |-> "", configId |-> "", isPublic |-> "undefined",
   own |-> FALSE, configData |-> NoConfigData, userName |-> "", page |-> 0, limit |-> 0,
   elapsed |-> 0]

\* the parameters of a trackApiUsage / refillCredits call, and who called
NoCall ==
  [caller |-> "none", licenseKey |-> NoKey, deviceId |-> NoDevice, endpoint |-> "",
   success |-> TRUE, amount |-> 0]

NoLocal ==
  [binding |-> NoRow, notification |-> "none", error |-> "none", call |-> NoCall,
   data |-> NoConfig]

NoResp ==
  [kind |-> "validate", status |-> 0, valid |-> FALSE, reason |-> "", deviceId |-> NoDevice,
   token |-> NoToken, newDevice |-> FALSE, updateNotification |-> "none"]

Min(a, b) == IF a <= b THEN a ELSE b

(***************************************************************************)
(* The store: device_bindings.                                             *)
(***************************************************************************)
\* .from('device_bindings').select('*').eq('license_key', key)
RowsOfKey(table, key) == {r \in table : r.license_key = key}

\* ... .eq('license_key', key).eq('device_id', deviceId)
RowsOfKeyDevice(table, key, deviceId) ==
  {r \in table : r.license_key = key /\ r.device_id = deviceId}

\* .single(): the row when exactly one matches, else data = null (PGRST116)
Single(rows) == IF Cardinality(rows) = 1 THEN CHOOSE r \in rows : TRUE ELSE NoRow

\* the row validate inserts: license_key, device_id, bound_at; the other
\* columns take the store's defaults
NewBinding(key, deviceId) ==
  [license_key |-> key, device_id |-> deviceId, credits_remaining |-> DefaultCredits,
   total_credits_used |-> 0, last_endpoint |-> "null", last_seen |-> 0,
   last_credit_usage |-> 0]

\* the store's unique constraint on device_bindings.license_key
InsertConflicts(table, row) == RowsOfKey(table, row.license_key) # {}

(***************************************************************************)
(* Token service.                                                          *)
(***************************************************************************)
\* licenseKey.substring(0, 8) + '...'
PartialKey(licenseKey) ==
  SubSeq(licenseKey, 1, Min(KeyPrefixLen, Len(licenseKey))) \o Dots

\* generateToken: the signed payload
\* (the payload has no device_id claim; it expires 5 minutes after minting)
generateToken(licenseKey, deviceId) ==
  [licenseKey |-> PartialKey(licenseKey), deviceId |-> deviceId, device_id |-> NoDevice,
   purpose |-> "honed-license", sig |-> "secretKey", age |-> "fresh"]

\* the token as the verifier sees it some minutes after it was issued: exp
\* is iat + 5 minutes and jwtVerify rejects a token from exp on
PresentedAfter(token, minutes) ==
  [token EXCEPT !.age = IF minutes < TokenLifetime THEN "fresh" ELSE "expired"]

\* mutant: the exp claim is not checked
MutJwtVerifyIgnoresExp(token) == token.sig # "secretKey"

\* jwtVerify(token, secretKey): throws on a bad signature or a passed exp
jwtVerifyThrows(token) == token.sig # "secretKey" \/ token.age # "fresh"

\* verifyToken: the payload when jwtVerify accepts the token and the purpose
\* is 'honed-license', else null
verifyToken(token) ==
  IF ~jwtVerifyThrows(token) /\ token.purpose = "honed-license" THEN token ELSE NoToken

(***************************************************************************)
(* Responses of validate.                                                  *)
(***************************************************************************)
Refusal(status, reason) == [NoResp EXCEPT !.status = status, !.reason = reason]

\* res.json({valid: true, reason: 'VALID', deviceId, token})
ValidResponse(key, deviceId) ==
  [NoResp EXCEPT !.status = 200, !.valid = TRUE, !.reason = "VALID",
     !.deviceId = deviceId, !.token = generateToken(key, deviceId)]

\* mutant: the registration branch forgets the newDevice flag
MutRegisteredResponseNoFlag(key, deviceId) == ValidResponse(key, deviceId)

\* res.json({valid: true, reason: 'VALID', deviceId, newDevice: true, token})
RegisteredResponse(key, deviceId) ==
  [ValidResponse(key, deviceId) EXCEPT !.newDevice = TRUE]

\* mutant: an active notification replaces the answer
MutBuildResponseBlocks(baseResponse, notification) ==
  IF notification # "none"
    THEN [Refusal(200, "UPDATE_REQUIRED") EXCEPT !.updateNotification = notification]
    ELSE baseResponse

\* buildResponse: adds updateNotification when an active notification was read
buildResponse(baseResponse, notification) ==
  IF notification # "none"
    THEN [baseResponse EXCEPT !.updateNotification = notification]
    ELSE baseResponse


(***************************************************************************)
(* Requests.                                                               *)
(***************************************************************************)
ValidateRequest(method, key, deviceId) ==
  [NoArgs EXCEPT !.method = method, !.key = key, !.deviceId = deviceId]

\* the query strings the validate handlers are called with
ValidateInputs ==
  {ValidateRequest("GET", K1, D1), ValidateRequest("GET", K1, D2),
   ValidateRequest("GET", KR, D1), ValidateRequest("GET", KX, D1),
   ValidateRequest("GET", NoKey, D1), ValidateRequest("GET", K1, NoDevice),
   ValidateRequest("POST", K1, D1)}

\* requests arrive in the order of their numbers, at most cap of them
Arrive(p, cap) ==
  pc[p] = "idle" /\ p <= cap /\ (IF p = 1 THEN TRUE ELSE pc[p - 1] # "idle")

\* the handler returns: the response is sent and the locals are gone; the
\* error the catch block logged (if any) stays in the log
\* ("storeError": the store failed; "23505": the store's unique violation)
Finish(p, response, error) ==
  /\ pc' = [pc EXCEPT ![p] = "done"]
  /\ resp' = [resp EXCEPT ![p] = response]
  /\ local' = [local EXCEPT ![p] = [NoLocal EXCEPT !.error = error]]
  /\ UNCHANGED args

\* the handler answers before its first store call
Reject(p, req, response) ==
  /\ pc' = [pc EXCEPT ![p] = "done"]
  /\ resp' = [resp EXCEPT ![p] = response]
  /\ args' = [args EXCEPT ![p] = req]
  /\ UNCHANGED local

\* the handler issues its next store call
Await(p, label, locals) ==
  /\ pc' = [pc EXCEPT ![p] = label]
  /\ local' = [local EXCEPT ![p] = locals]
  /\ UNCHANGED <<resp, args>>

(***************************************************************************)
(* validate, first handler: allowlist and revocation list from the         *)
(* environment.                                                            *)
(***************************************************************************)
\* mutant: the parameters are checked before the kill switch
MutV1GateParamsFirst(req) ==
  IF req.method # "GET" THEN Refusal(405, "")
  ELSE IF req.key = NoKey \/ req.deviceId = NoDevice THEN Refusal(400, "INVALID_REQUEST")
  ELSE IF masterKillSwitch THEN Refusal(200, "MAINTENANCE")
  ELSE IF req.key \in revokedKeys THEN Refusal(200, "REVOKED")
  ELSE IF req.key \notin VALID_LICENSE_KEYS THEN Refusal(200, "INVALID")
  ELSE NoResp

\* the checks before the first store call; NoResp: go on
V1Gate(req) ==
  IF req.method # "GET" THEN Refusal(405, "")
  ELSE IF masterKillSwitch THEN Refusal(200, "MAINTENANCE")
  ELSE IF req.key = NoKey \/ req.deviceId = NoDevice THEN Refusal(400, "INVALID_REQUEST")
  ELSE IF req.key \in revokedKeys THEN Refusal(200, "REVOKED")
  ELSE IF req.key \notin VALID_LICENSE_KEYS THEN Refusal(200, "INVALID")
  ELSE NoResp

\* mutant: any existing binding is accepted, the device is not compared
MutBindingDecisionAnyDevice(existingBinding, key, deviceId) ==
  IF existingBinding # NoRow THEN ValidResponse(key, deviceId) ELSE NoResp

\* mutant: the DEVICE_MISMATCH answer carries a token for the asking device
MutBindingDecisionTokenOnMismatch(existingBinding, key, deviceId) ==
  IF existingBinding # NoRow
    THEN IF existingBinding.device_id = deviceId
           THEN ValidResponse(key, deviceId)
           ELSE [Refusal(200, "DEVICE_MISMATCH") EXCEPT !.token = generateToken(key, deviceId)]
    ELSE NoResp


\* if (existingBinding) { same device: VALID + token; else DEVICE_MISMATCH };
\* NoResp: no binding yet, go on to the insert
BindingDecision(existingBinding, key, deviceId) ==
  IF existingBinding # NoRow
    THEN IF existingBinding.device_id = deviceId
           THEN ValidResponse(key, deviceId)
           ELSE Refusal(200, "DEVICE_MISMATCH")
    ELSE NoResp

\* mutant: a mismatching device takes the binding over
MutRebindOnMismatch(table, existingBinding, deviceId) ==
  IF existingBinding # NoRow /\ existingBinding.device_id # deviceId
    THEN {IF r.license_key = existingBinding.license_key
            THEN [r EXCEPT !.device_id = deviceId] ELSE r : r \in table}
    ELSE table

\* the table after the existing-binding branch: neither the VALID nor the
\* DEVICE_MISMATCH branch writes to the store
BindingBranchWrites(table, existingBinding, deviceId) == table

V1Begin(p, req, cap) ==
  /\ Arrive(p, cap)
  /\ IF V1Gate(req) # NoResp
       THEN Reject(p, req, V1Gate(req))
       ELSE /\ pc' = [pc EXCEPT ![p] = "v1_fetch"]
            /\ args' = [args EXCEPT ![p] = req]
            /\ UNCHANGED <<resp, local>>
  /\ UNCHANGED <<masterKillSwitch, device_bindings, shareVars, logVars>>

\* the select on device_bindings returns
V1Fetch(p, fault) ==
  /\ pc[p] = "v1_fetch"
  /\ LET key == args[p].key
         deviceId == args[p].deviceId
         existingBinding == Single(RowsOfKey(device_bindings, key))
         decision == BindingDecision(existingBinding, key, deviceId)
     IN IF fault
          THEN Finish(p, Refusal(500, "ERROR"), "storeError") /\ UNCHANGED device_bindings
          ELSE IF decision # NoResp
            THEN /\ Finish(p, decision, "none")
                 /\ device_bindings' = BindingBranchWrites(device_bindings, existingBinding, deviceId)
            ELSE /\ Await(p, "v1_insert", [NoLocal EXCEPT !.binding = existingBinding])
                 /\ UNCHANGED device_bindings
  /\ UNCHANGED <<masterKillSwitch, shareVars, logVars>>

\* the insert into device_bindings returns
V1Insert(p, fault) ==
  /\ pc[p] = "v1_insert"
  /\ LET key == args[p].key
         deviceId == args[p].deviceId
         row == NewBinding(key, deviceId)
     IN IF fault
          THEN Finish(p, Refusal(500, "ERROR"), "storeError") /\ UNCHANGED device_bindings
          ELSE IF InsertConflicts(device_bindings, row)
            THEN Finish(p, Refusal(500, "ERROR"), "23505") /\ UNCHANGED device_bindings
            ELSE /\ device_bindings' = device_bindings \cup {row}
                 /\ Finish(p, RegisteredResponse(key, deviceId), "none")
  /\ UNCHANGED <<masterKillSwitch, shareVars, logVars>>

(***************************************************************************)
(* validate, second handler: license keys in the license_keys table.       *)
(***************************************************************************)
V2Gate(req) ==
  IF req.method # "GET" THEN Refusal(405, "")
  ELSE IF masterKillSwitch THEN Refusal(200, "MAINTENANCE")
  ELSE IF req.key = NoKey \/ req.deviceId = NoDevice THEN Refusal(400, "INVALID_REQUEST")
  ELSE NoResp

\* if (!licenseData) INVALID; if (licenseData.revoked) REVOKED; NoResp: go on
LicenseDecision(key) ==
  IF key \notin DOMAIN license_keys THEN Refusal(200, "INVALID")
  ELSE IF license_keys[key].revoked THEN Refusal(200, "REVOKED")
  ELSE NoResp

V2Begin(p, req, cap) ==
  /\ Arrive(p, cap)
  /\ IF V2Gate(req) # NoResp
       THEN Reject(p, req, V2Gate(req))
       ELSE /\ pc' = [pc EXCEPT ![p] = "v2_license"]
            /\ args' = [args EXCEPT ![p] = req]
            /\ UNCHANGED <<resp, local>>
  /\ UNCHANGED <<masterKillSwitch, device_bindings, shareVars, logVars>>

\* the select on license_keys returns
V2License(p, fault) ==
  /\ pc[p] = "v2_license"
  /\ IF fault
       THEN Finish(p, Refusal(500, "ERROR"), "storeError")
       ELSE IF LicenseDecision(args[p].key) # NoResp
         THEN Finish(p, LicenseDecision(args[p].key), "none")
         ELSE Await(p, "v2_fetch", NoLocal)
  /\ UNCHANGED <<masterKillSwitch, device_bindings, shareVars, logVars>>

\* mutant: a failed select is taken for 'no rows found'
MutV2FetchErrorAsNoRows(p, fault) ==
  /\ pc[p] = "v2_fetch"
  /\ IF fault
       THEN Await(p, "v2_notification", [NoLocal EXCEPT !.error = "storeError"])
       ELSE Await(p, "v2_notification",
                  [NoLocal EXCEPT !.binding = Single(RowsOfKey(device_bindings, args[p].key))])
  /\ UNCHANGED <<masterKillSwitch, device_bindings, shareVars, logVars>>

\* the select on device_bindings returns (fetchError other than PGRST116 is
\* thrown to the catch block)
V2Fetch(p, fault) ==
  /\ pc[p] = "v2_fetch"
  /\ IF fault
       THEN Finish(p, Refusal(500, "ERROR"), "storeError")
       ELSE Await(p, "v2_notification",
                  [NoLocal EXCEPT !.binding = Single(RowsOfKey(device_bindings, args[p].key))])
  /\ UNCHANGED <<masterKillSwitch, device_bindings, shareVars, logVars>>

\* the select on update_notifications returns (an error of it is only
\* logged: notification is then "none"); the handler decides on the binding
\* it read before
V2Notification(p, notification) ==
  /\ pc[p] = "v2_notification"
  /\ LET key == args[p].key
         deviceId == args[p].deviceId
         existingBinding == local[p].binding
         decision == BindingDecision(existingBinding, key, deviceId)
     IN IF decision # NoResp
          THEN /\ Finish(p, IF decision.valid THEN buildResponse(decision, notification)
                                              ELSE decision, "none")
               /\ device_bindings' = BindingBranchWrites(device_bindings, existingBinding, deviceId)
          ELSE /\ Await(p, "v2_insert", [local[p] EXCEPT !.notification = notification])
               /\ UNCHANGED device_bindings
  /\ UNCHANGED <<masterKillSwitch, shareVars, logVars>>

\* the insert into device_bindings returns
V2Insert(p, fault) ==
  /\ pc[p] = "v2_insert"
  /\ LET key == args[p].key
         deviceId == args[p].deviceId
         row == NewBinding(key, deviceId)
     IN IF fault
          THEN Finish(p, Refusal(500, "ERROR"), "storeError") /\ UNCHANGED device_bindings
          ELSE IF InsertConflicts(device_bindings, row)
            THEN Finish(p, Refusal(500, "ERROR"), "23505") /\ UNCHANGED device_bindings
            ELSE /\ device_bindings' = device_bindings \cup {row}
                 /\ Finish(p, buildResponse(RegisteredResponse(key, deviceId),
                                            local[p].notification), "none")
  /\ UNCHANGED <<masterKillSwitch, shareVars, logVars>>

Notifications == {"none", "update available"}

(***************************************************************************)
(* The ledger alone: validate requests of both handlers.  KR was bound to  *)
(* D1 before it was revoked.                                               *)
(***************************************************************************)
InitRequests ==
  /\ pc = [p \in Requests |-> "idle"]
  /\ args = [p \in Requests |-> NoArgs]
  /\ local = [p \in Requests |-> NoLocal]
  /\ resp = [p \in Requests |-> NoResp]
  /\ activity_logs = {}
  /\ log_inflight = {}

InitLedger ==
  /\ masterKillSwitch \in BOOLEAN
  /\ device_bindings = {NewBinding(KR, D1)}
  /\ shared_configs = {}
  /\ InitRequests

ValidateStep(p, cap, faults, inputs) ==
  \/ \E req \in inputs : V1Begin(p, req, cap)
  \/ \E fault \in faults : V1Fetch(p, fault)
  \/ \E fault \in faults : V1Insert(p, fault)
  \/ \E req \in inputs : V2Begin(p, req, cap)
  \/ \E fault \in faults : V2License(p, fault)
  \/ \E fault \in faults : V2Fetch(p, fault)
  \/ \E notification \in Notifications : V2Notification(p, notification)
  \/ \E fault \in faults : V2Insert(p, fault)

NextLedger == \E p \in Requests : ValidateStep(p, LedgerRequests, BOOLEAN, ValidateInputs)

SpecLedger == InitLedger /\ [][NextLedger]_vars


(***************************************************************************)
(* Credit meter: trackApiUsage and refillCredits.                          *)
(***************************************************************************)
\* what trackApiUsage returns
ChargeResult(success, creditsRemaining, error, creditsUsed, totalUsed) ==
  [kind |-> "charge", success |-> success, creditsRemaining |-> creditsRemaining,
   error |-> error, creditsUsed |-> creditsUsed, totalUsed |-> totalUsed]

\* an error message, with the two figures the insufficient-credits text holds
Message(text) == [text |-> text, need |-> 0, have |-> 0]

\* `Insufficient credits. Need ${creditsToDeduct}, have ${creditsRemaining}`
InsufficientMessage(creditsToDeduct, creditsRemaining) ==
  [text |-> "Insufficient credits", need |-> creditsToDeduct, have |-> creditsRemaining]

\* { success: false, creditsRemaining: null, error }
ChargeFailure(text) == ChargeResult(FALSE, "null", Message(text), "undefined", "undefined")

\* what refillCredits returns
RefillResult(success, error, previousBalance, newBalance) ==
  [kind |-> "refill", success |-> success, error |-> error,
   previousBalance |-> previousBalance, newBalance |-> newBalance]

\* CREDIT_COSTS[endpoint] || 1
CostOf(endpoint) ==
  IF endpoint \in DOMAIN CREDIT_COSTS
    THEN (IF CREDIT_COSTS[endpoint] # 0 THEN CREDIT_COSTS[endpoint] ELSE 1)
    ELSE 1

\* const creditsToDeduct = success ? (CREDIT_COSTS[endpoint] || 1) : 0
CreditsToDeduct(endpoint, success) == IF success THEN CostOf(endpoint) ELSE 0

\* mutant: the balance is compared with 0, not with the cost
MutInsufficientBelowZero(success, creditsRemaining, creditsToDeduct) ==
  success /\ creditsRemaining < 0

\* mutant: a balance equal to the cost is refused
MutInsufficientOffByOne(success, creditsRemaining, creditsToDeduct) ==
  success /\ creditsRemaining <= creditsToDeduct

\* if (success && creditsRemaining < creditsToDeduct)
Insufficient(success, creditsRemaining, creditsToDeduct) ==
  success /\ creditsRemaining < creditsToDeduct

\* .select('credits_remaining, total_credits_used'): the other columns of
\* the row are not read (license_key and device_id are the filter)
SelectCredits(row) ==
  IF row = NoRow THEN NoRow
  ELSE [row EXCEPT !.last_endpoint = "null", !.last_seen = 0, !.last_credit_usage = 0]

\* new Date().toISOString(), taken by call p
Now(p) == p

\* mutant: the credit columns are written whether or not the operation
\* succeeded
MutChargedRowStampsAlways(row, binding, endpoint, success, now) ==
  [row EXCEPT
     !.last_seen = now,
     !.last_endpoint = endpoint,
     !.credits_remaining = binding.credits_remaining - CreditsToDeduct(endpoint, success),
     !.total_credits_used = binding.total_credits_used + CreditsToDeduct(endpoint, success),
     !.last_credit_usage = now]

\* mutant: a successful operation deducts from credits_remaining and leaves
\* total_credits_used as the row has it
MutChargedRowKeepsTotal(row, binding, endpoint, success, now) ==
  IF success
    THEN [row EXCEPT
            !.last_seen = now,
            !.last_endpoint = endpoint,
            !.credits_remaining = binding.credits_remaining - CreditsToDeduct(endpoint, success),
            !.last_credit_usage = now]
    ELSE [row EXCEPT !.last_seen = now, !.last_endpoint = endpoint]


\* the row after .update(updateData) of trackApiUsage (last_ip and
\* last_user_agent are written with last_seen and last_endpoint)
ChargedRow(row, binding, endpoint, success, now) ==
  IF success
    THEN [row EXCEPT
            !.last_seen = now,
            !.last_endpoint = endpoint,
            !.credits_remaining = binding.credits_remaining - CreditsToDeduct(endpoint, success),
            !.total_credits_used = binding.total_credits_used + CreditsToDeduct(endpoint, success),
            !.last_credit_usage = now]
    ELSE [row EXCEPT !.last_seen = now, !.last_endpoint = endpoint]

\* the row logActivity inserts into activity_logs for call p
LogEntry(p, call, creditsUsed) ==
  [call |-> p, license_key |-> call.licenseKey, device_id |-> call.deviceId,
   endpoint |-> call.endpoint, credits_used |-> creditsUsed, success |-> call.success]

\* mutant: a negative amount is added like a positive one
MutNewBalanceAlwaysAdds(current, amount) == current.credits_remaining + amount

\* mutant: a positive amount sets the balance like a negative one
MutNewBalanceAlwaysSets(current, amount) == IF amount < 0 THEN -amount ELSE amount

\* amount < 0 ? Math.abs(amount) : (current.credits_remaining ?? 0) + amount
NewBalance(current, amount) ==
  IF amount < 0 THEN -amount ELSE current.credits_remaining + amount

\* mutant: the update is filtered by device_id only
MutUpdateByDevice(table, licenseKey, deviceId, updateData) ==
  {IF r.device_id = deviceId THEN updateData[r] ELSE r : r \in table}

\* .update(...).eq('license_key', licenseKey).eq('device_id', deviceId)
\* (updateData maps each row of the table to the row the update makes of it)
UpdateKeyDevice(table, licenseKey, deviceId, updateData) ==
  {IF r.license_key = licenseKey /\ r.device_id = deviceId THEN updateData[r] ELSE r : r \in table}

ChargeRequest(key, deviceId, endpoint, success) ==
  [NoArgs EXCEPT !.key = key, !.deviceId = deviceId, !.endpoint = endpoint, !.success = success]

RefillRequest(key, deviceId, amount) ==
  [NoArgs EXCEPT !.key = key, !.deviceId = deviceId, !.amount = amount]

\* what the community handler answers
CommunityResponse(status, error, message) ==
  [kind |-> "community", status |-> status, error |-> error, message |-> message,
   creditsNeeded |-> IF status = 402 THEN 20 ELSE 0]

\* community handler: if (!creditCheck.success) 402, else go on to the
\* tracking update
CommunityAfterCharge(p, creditCheck) ==
  IF ~creditCheck.success
    THEN Finish(p, CommunityResponse(402, "Insufficient credits", creditCheck.error), "none")
    ELSE Await(p, "m_track", local[p])

\* trackApiUsage hands its result to its caller; a direct call ends here
Return(p, result) ==
  IF local[p].call.caller = "community"
    THEN CommunityAfterCharge(p, result)
    ELSE Finish(p, result, "none")

\* trackApiUsage is called
ChargeBegin(p, req, cap) ==
  /\ Arrive(p, cap)
  /\ args' = [args EXCEPT ![p] = req]
  /\ pc' = [pc EXCEPT ![p] = "c_fetch"]
  /\ local' = [local EXCEPT ![p] =
       [NoLocal EXCEPT !.call = [NoCall EXCEPT !.caller = "direct", !.licenseKey = req.key,
                                   !.deviceId = req.deviceId, !.endpoint = req.endpoint,
                                   !.success = req.success]]]
  /\ UNCHANGED <<resp, masterKillSwitch, device_bindings, shareVars, logVars>>

\* the select of trackApiUsage returns
ChargeFetch(p, fault) ==
  /\ pc[p] = "c_fetch"
  /\ LET call == local[p].call
         creditsToDeduct == CreditsToDeduct(call.endpoint, call.success)
         binding == IF fault THEN NoRow
                    ELSE SelectCredits(Single(RowsOfKeyDevice(device_bindings,
                                                              call.licenseKey, call.deviceId)))
     IN IF binding = NoRow
          THEN Return(p, ChargeFailure("Device binding not found"))
          ELSE IF Insufficient(call.success, binding.credits_remaining, creditsToDeduct)
            THEN Return(p, ChargeResult(FALSE, binding.credits_remaining,
                                        InsufficientMessage(creditsToDeduct,
                                                            binding.credits_remaining),
                                        "undefined", "undefined"))
            ELSE Await(p, "c_update", [local[p] EXCEPT !.binding = binding])
  /\ UNCHANGED <<masterKillSwitch, device_bindings, shareVars, logVars>>

\* mutant: the activity log entry is dispatched before the result of the
\* update is looked at
MutChargeUpdateLogsFirst(p, fault) ==
  /\ pc[p] = "c_update"
  /\ LET call == local[p].call
         binding == local[p].binding
         creditsToDeduct == CreditsToDeduct(call.endpoint, call.success)
         updateData == [r \in device_bindings |->
                          ChargedRow(r, binding, call.endpoint, call.success, Now(p))]
     IN /\ log_inflight' = log_inflight \cup {LogEntry(p, call, creditsToDeduct)}
        /\ UNCHANGED activity_logs
        /\ IF fault
             THEN Return(p, ChargeFailure("update error")) /\ UNCHANGED device_bindings
             ELSE /\ device_bindings' =
                       UpdateKeyDevice(device_bindings, call.licenseKey, call.deviceId, updateData)
                  /\ Return(p, ChargeResult(TRUE, binding.credits_remaining - creditsToDeduct,
                                            Message("none"), creditsToDeduct,
                                            binding.total_credits_used + creditsToDeduct))
  /\ UNCHANGED <<masterKillSwitch, shareVars>>

\* mutant: the error of the update is not looked at
MutChargeUpdateErrorIgnored(p, fault) ==
  /\ pc[p] = "c_update"
  /\ LET call == local[p].call
         binding == local[p].binding
         creditsToDeduct == CreditsToDeduct(call.endpoint, call.success)
         updateData == [r \in device_bindings |->
                          ChargedRow(r, binding, call.endpoint, call.success, Now(p))]
     IN /\ device_bindings' =
             IF fault THEN device_bindings
             ELSE UpdateKeyDevice(device_bindings, call.licenseKey, call.deviceId, updateData)
        /\ log_inflight' = log_inflight \cup {LogEntry(p, call, creditsToDeduct)}
        /\ UNCHANGED activity_logs
        /\ Return(p, ChargeResult(TRUE, binding.credits_remaining - creditsToDeduct,
                                  Message("none"), creditsToDeduct,
                                  binding.total_credits_used + creditsToDeduct))
  /\ UNCHANGED <<masterKillSwitch, shareVars>>

\* the update of trackApiUsage returns
ChargeUpdate(p, fault) ==
  /\ pc[p] = "c_update"
  /\ LET call == local[p].call
         binding == local[p].binding
         creditsToDeduct == CreditsToDeduct(call.endpoint, call.success)
         updateData == [r \in device_bindings |->
                          ChargedRow(r, binding, call.endpoint, call.success, Now(p))]
     IN IF fault
          THEN Return(p, ChargeFailure("update error")) /\ UNCHANGED <<device_bindings, logVars>>
          ELSE /\ device_bindings' =
                    UpdateKeyDevice(device_bindings, call.licenseKey, call.deviceId, updateData)
               /\ log_inflight' = log_inflight \cup {LogEntry(p, call, creditsToDeduct)}
               /\ UNCHANGED activity_logs
               /\ Return(p, ChargeResult(TRUE, binding.credits_remaining - creditsToDeduct,
                                         Message("none"), creditsToDeduct,
                                         binding.total_credits_used + creditsToDeduct))
  /\ UNCHANGED <<masterKillSwitch, shareVars>>

\* mutant: the insert is awaited and its failure fails the call
MutResultAfterLogFails(result, ok) ==
  IF ok \/ result.kind # "charge" THEN result ELSE ChargeFailure("log error")

\* the result of the call once the activity_logs insert has settled:
\* trackApiUsage does not await logActivity and has returned; logActivity
\* catches the insert's error, and a rejection is caught by .catch
ResultAfterLog(result, ok) == result

\* the activity_logs insert of logActivity settles: the row is stored, or
\* the insert fails and the error is logged to the console
LogActivity(entry, ok) ==
  /\ entry \in log_inflight
  /\ log_inflight' = log_inflight \ {entry}
  /\ activity_logs' = IF ok THEN activity_logs \cup {entry} ELSE activity_logs
  /\ resp' = [resp EXCEPT ![entry.call] = ResultAfterLog(resp[entry.call], ok)]
  /\ UNCHANGED <<masterKillSwitch, device_bindings, pc, args, local, shareVars>>

\* refillCredits is called
RefillBegin(p, req, cap) ==
  /\ Arrive(p, cap)
  /\ args' = [args EXCEPT ![p] = req]
  /\ pc' = [pc EXCEPT ![p] = "r_fetch"]
  /\ local' = [local EXCEPT ![p] =
       [NoLocal EXCEPT !.call = [NoCall EXCEPT !.caller = "direct", !.licenseKey = req.key,
                                   !.deviceId = req.deviceId, !.amount = req.amount]]]
  /\ UNCHANGED <<resp, masterKillSwitch, device_bindings, shareVars, logVars>>

\* the select of refillCredits returns
RefillFetch(p, fault) ==
  /\ pc[p] = "r_fetch"
  /\ LET call == local[p].call
         current == IF fault THEN NoRow
                    ELSE SelectCredits(Single(RowsOfKeyDevice(device_bindings,
                                                              call.licenseKey, call.deviceId)))
     IN IF current = NoRow
          THEN Finish(p, RefillResult(FALSE, "Device binding not found", "undefined", "undefined"),
                      "none")
          ELSE Await(p, "r_update", [local[p] EXCEPT !.binding = current])
  /\ UNCHANGED <<masterKillSwitch, device_bindings, shareVars, logVars>>

\* the update of refillCredits returns
RefillUpdate(p, fault) ==
  /\ pc[p] = "r_update"
  /\ LET call == local[p].call
         current == local[p].binding
         newBalance == NewBalance(current, call.amount)
         updateData == [r \in device_bindings |-> [r EXCEPT !.credits_remaining = newBalance]]
     IN IF fault
          THEN /\ Finish(p, RefillResult(FALSE, "update error", "undefined", "undefined"), "none")
               /\ UNCHANGED device_bindings
          ELSE /\ device_bindings' =
                    UpdateKeyDevice(device_bindings, call.licenseKey, call.deviceId, updateData)
               /\ Finish(p, RefillResult(TRUE, "none", current.credits_remaining, newBalance),
                         "none")
  /\ UNCHANGED <<masterKillSwitch, shareVars, logVars>>

\* the calls made on the meter: "community" costs 5, "heartbeat" is not in
\* the cost table
ChargeInputs ==
  {ChargeRequest(K1, D1, "community", TRUE), ChargeRequest(K1, D1, "heartbeat", TRUE),
   ChargeRequest(K1, D1, "community", FALSE), ChargeRequest(K1, D2, "community", TRUE)}

RefillInputs == {RefillRequest(K1, D1, 2), RefillRequest(K1, D1, -3)}

(***************************************************************************)
(* The meter alone: K1 is bound to D1 and has its first credits.           *)
(***************************************************************************)
InitMeter ==
  /\ masterKillSwitch = FALSE
  /\ device_bindings = {NewBinding(K1, D1)}
  /\ shared_configs = {}
  /\ InitRequests

MeterStep(p, cap, faults, charges, refills) ==
  \/ \E req \in charges : ChargeBegin(p, req, cap)
  \/ \E fault \in faults : ChargeFetch(p, fault)
  \/ \E fault \in faults : ChargeUpdate(p, fault)
  \/ \E req \in refills : RefillBegin(p, req, cap)
  \/ \E fault \in faults : RefillFetch(p, fault)
  \/ \E fault \in faults : RefillUpdate(p, fault)

NextMeter ==
  \E p \in Requests : MeterStep(p, MeterRequests, BOOLEAN, ChargeInputs, RefillInputs)

SpecMeter == InitMeter /\ [][NextMeter]_vars

(***************************************************************************)
(* The administrator's refills: adding, setting, and on a device that has  *)
(* no binding; a charge may come between them.                             *)
(***************************************************************************)
AdminRefillInputs ==
  {RefillRequest(K1, D1, 2), RefillRequest(K1, D1, -3), RefillRequest(K1, D2, 2)}

AdminChargeInputs == {ChargeRequest(K1, D1, "heartbeat", TRUE)}

NextAdmin ==
  \E p \in Requests :
    MeterStep(p, AdminRequests, BOOLEAN, AdminChargeInputs, AdminRefillInputs)

SpecAdmin == InitMeter /\ [][NextAdmin]_vars

(***************************************************************************)
(* The meter on a table of several bindings: K1 and KF are bound to D1, KR *)
(* is bound to D2.  Calls name a binding, a key with a device that is      *)
(* bound to another key, and a key with a device that no key is bound to.  *)
(***************************************************************************)
FrameChargeInputs ==
  {ChargeRequest(K1, D1, "community", TRUE), ChargeRequest(KF, D1, "heartbeat", FALSE),
   ChargeRequest(K1, D2, "heartbeat", TRUE), ChargeRequest(KR, "D3", "heartbeat", TRUE)}

FrameRefillInputs ==
  {RefillRequest(K1, D1, 2), RefillRequest(KR, D2, -3), RefillRequest(KF, D2, 2)}

InitFrame ==
  /\ masterKillSwitch = FALSE
  /\ device_bindings = {NewBinding(K1, D1), NewBinding(KF, D1), NewBinding(KR, D2)}
  /\ shared_configs = {}
  /\ InitRequests

NextFrame ==
  \E p \in Requests :
    MeterStep(p, FrameRequests, BOOLEAN, FrameChargeInputs, FrameRefillInputs)

SpecFrame == InitFrame /\ [][NextFrame]_vars


(***************************************************************************)
(* The meter with its activity log: charges, and the inserts into          *)
(* activity_logs settling at any later time, or never.  The binding of K1  *)
(* is new, or its first credits are spent.                                 *)
(***************************************************************************)
\* a binding after earlier charges took its first credits: 5 by community
\* and the rest by calls that cost 1
SpentBinding(key, deviceId) ==
  [NewBinding(key, deviceId) EXCEPT !.credits_remaining = 0,
                                    !.total_credits_used = DefaultCredits,
                                    !.last_endpoint = "heartbeat"]

InitLog ==
  /\ masterKillSwitch = FALSE
  /\ device_bindings \in {{NewBinding(K1, D1)}, {SpentBinding(K1, D1)}}
  /\ shared_configs = {}
  /\ InitRequests

LogInputs ==
  {ChargeRequest(K1, D1, "community", TRUE), ChargeRequest(K1, D1, "heartbeat", TRUE),
   ChargeRequest(K1, D1, "community", FALSE)}

NextLog ==
  \/ \E p \in Requests : \E req \in LogInputs : ChargeBegin(p, req, LogRequests)
  \/ \E p \in Requests : \E fault \in BOOLEAN : ChargeFetch(p, fault)
  \/ \E p \in Requests : \E fault \in BOOLEAN : ChargeUpdate(p, fault)
  \/ \E entry \in log_inflight : \E ok \in BOOLEAN : LogActivity(entry, ok)

SpecLog == InitLog /\ [][NextLog]_vars

(***************************************************************************)
(* community handler: token check, charge, tracking update, provider call. *)
(***************************************************************************)
CommunityRequest(method, token, communityId) ==
  [NoArgs EXCEPT !.handler = "community", !.method = method, !.token = token,
                 !.communityId = communityId]

\* a token signed with another secret
ForgedToken == [generateToken(KF, D1) EXCEPT !.sig = "other"]

\* the request arrives: method, Authorization header, token; then
\* trackApiUsage(payload.licenseKey, payload.deviceId, 'community', ...)
CommunityBegin(p, req, cap) ==
  /\ Arrive(p, cap)
  /\ LET payload == verifyToken(req.token)
     IN IF req.method # "GET"
          THEN Reject(p, req, CommunityResponse(405, "Method not allowed", Message("none")))
          ELSE IF req.token = NoToken
            THEN Reject(p, req, CommunityResponse(401, "Unauthorized - No token provided",
                                                  Message("none")))
          ELSE IF payload = NoToken
            THEN Reject(p, req, CommunityResponse(401, "Unauthorized - Invalid or expired token",
                                                  Message("none")))
          ELSE /\ pc' = [pc EXCEPT ![p] = "c_fetch"]
               /\ args' = [args EXCEPT ![p] = req]
               /\ local' = [local EXCEPT ![p] =
                    [NoLocal EXCEPT !.call =
                       [NoCall EXCEPT !.caller = "community", !.licenseKey = payload.licenseKey,
                                      !.deviceId = payload.deviceId, !.endpoint = "community",
                                      !.success = TRUE]]]
               /\ UNCHANGED resp
  /\ UNCHANGED <<masterKillSwitch, device_bindings, shareVars, logVars>>

\* .update({last_seen, last_ip, last_user_agent, last_endpoint: 'community'})
\*   .eq('device_id', payload.deviceId)
TrackDevice(table, deviceId, now) ==
  {IF r.device_id = deviceId THEN [r EXCEPT !.last_seen = now, !.last_endpoint = "community"]
     ELSE r : r \in table}

\* the tracking update returns (its failure is ignored); then the
\* communityId check and the provider call
CommunityTrack(p, fault) ==
  /\ pc[p] = "m_track"
  /\ device_bindings' = IF fault THEN device_bindings
                        ELSE TrackDevice(device_bindings, local[p].call.deviceId, Now(p))
  /\ IF args[p].communityId = ""
       THEN Finish(p, CommunityResponse(400, "Missing communityId", Message("none")), "none")
       ELSE Await(p, "m_upstream", local[p])
  /\ UNCHANGED <<masterKillSwitch, shareVars, logVars>>

\* the provider answers
CommunityUpstream(p, ok) ==
  /\ pc[p] = "m_upstream"
  /\ IF ok
       THEN Finish(p, CommunityResponse(200, "none", Message("none")), "none")
       ELSE Finish(p, CommunityResponse(500, "Twitter API error", Message("none")), "none")
  /\ UNCHANGED <<masterKillSwitch, device_bindings, shareVars, logVars>>

\* the tokens a client can hold: minted by validate for a binding that
\* exists, none, or forged
CommunityInputs ==
  {CommunityRequest("GET", t, c) :
     t \in {generateToken(r.license_key, r.device_id) : r \in device_bindings}
             \cup {NoToken, ForgedToken},
     c \in {"", "1234"}}

(***************************************************************************)
(* Config-share store: the shared_configs table and the handlers on it.    *)
(* config-share.js routes all six operations; the single-operation files   *)
(* (config-share-upload.js, ...) differ in the method check and in the     *)
(* token check, which they delegate to verifyJWT of shared/jwt-utils.js.   *)
(*                                                                         *)
(* configData is known by the length of its JSON text in UTF-16 code units *)
(* (what String.length counts) and by its size in UTF-8 bytes.             *)
(***************************************************************************)
\* const MAX_SIZE = 5 * 1024 * 1024
MAX_SIZE == 5 * 1024 * 1024

\* JSON.stringify(configData).length
configSizeBytes(configData) == configData.chars

\* the row handleUpload inserts; the store gives it its id, and the counters
\* take the store's defaults
NewConfig(id, deviceId, isPublic, configData) ==
  [NoConfig EXCEPT !.id = id, !.device_id = deviceId,
                   !.is_public = (isPublic = "true"),
                   !.config_data = configData,
                   !.config_size_bytes = configSizeBytes(configData)]

\* .eq('id', configId)
ConfigsOfId(table, configId) == {r \in table : r.id = configId}

\* .eq('id', configId).eq('device_id', deviceId)
ConfigsOfIdDevice(table, configId, deviceId) ==
  {r \in table : r.id = configId /\ r.device_id = deviceId}

\* .single() on shared_configs
SingleConfig(rows) == IF Cardinality(rows) = 1 THEN CHOOSE r \in rows : TRUE ELSE NoConfig

\* mutant: the public filter is missing
MutBrowseRowsAllOthers(table, deviceId, own) ==
  IF own THEN {r \in table : r.device_id = deviceId}
         ELSE {r \in table : r.device_id # deviceId}

\* handleBrowse: own ? .eq('device_id', deviceId)
\*                   : .eq('is_public', true).neq('device_id', deviceId)
BrowseRows(table, deviceId, own) ==
  IF own THEN {r \in table : r.device_id = deviceId}
         ELSE {r \in table : r.is_public /\ r.device_id # deviceId}

\* parseInt(req.query.page) || 1 and parseInt(req.query.limit) || 20
\* (0: the parameter is absent, not a number, or 0)
PageOf(page) == IF page = 0 THEN 1 ELSE page
LimitOf(limit) == IF limit = 0 THEN 20 ELSE limit

\* .order('created_at', { ascending: false })
Newest(rows) == CHOOSE r \in rows : \A o \in rows : o.created_at <= r.created_at

RECURSIVE OrderNewestFirst(_)
OrderNewestFirst(rows) ==
  IF rows = {} THEN << >>
  ELSE <<Newest(rows)>> \o OrderNewestFirst(rows \ {Newest(rows)})

\* .range(from, to): the rows at the positions from..to, counted from 0
Range(ordered, from, to) ==
  IF from >= Len(ordered) THEN << >>
  ELSE SubSeq(ordered, from + 1, Min(to + 1, Len(ordered)))

\* a response of the config-share handlers
ShareResponse(status, error) ==
  [kind |-> "share", status |-> status, error |-> error, success |-> (status = 200),
   config |-> NoConfig, configData |-> NoConfigData, configId |-> "", isPublic |-> "undefined",
   configs |-> << >>, message |-> ""]

ShareRequest(handler, method, token, action, configId) ==
  [NoArgs EXCEPT !.handler = handler, !.method = method, !.token = token, !.action = action,
                 !.configId = configId]

\* verifyJWT of shared/jwt-utils.js: the verified payload; an invalid token
\* makes it throw
verifyJWT(token) == verifyToken(token)

\* the method each single-operation file serves
FileMethod(action) ==
  CASE action \in {"browse", "preview"} -> "GET"
    [] action \in {"upload", "copy"} -> "POST"
    [] action = "visibility" -> "PATCH"
    [] action = "delete" -> "DELETE"
    [] OTHER -> "none"

\* const deviceId = decoded?.device_id (config-share.js), decoded.device_id
\* (the single-operation files)
TokenDeviceId(decoded) == decoded.device_id

\* the preflight answer and the token check of config-share.js and of the
\* single-operation files: the response that ends the request, or status 0
\* to go on (isPublic of a request is "true", "false" or "undefined")
ShareGate(req) ==
  IF req.method = "OPTIONS" THEN [ShareResponse(200, "") EXCEPT !.success = FALSE]
  ELSE IF req.handler = "config-share"
    THEN IF req.token = NoToken THEN ShareResponse(401, "Missing authorization header")
         ELSE IF jwtVerifyThrows(req.token) THEN ShareResponse(401, "Invalid token")
         ELSE IF req.token.purpose # "honed-license" THEN ShareResponse(401, "Invalid token")
         ELSE IF TokenDeviceId(req.token) = NoDevice THEN ShareResponse(401, "Invalid token")
         ELSE ShareResponse(0, "")
    ELSE IF req.method # FileMethod(req.action) THEN ShareResponse(405, "Method not allowed")
         ELSE IF req.token = NoToken THEN ShareResponse(401, "Missing authorization header")
         ELSE IF verifyJWT(req.token) = NoToken THEN ShareResponse(500, "Internal server error")
         ELSE IF TokenDeviceId(verifyJWT(req.token)) = NoDevice
           THEN ShareResponse(401, "Invalid token")
         ELSE ShareResponse(0, "")

\* the operation a request is routed to: config-share.js routes on method
\* and action, a single-operation file is its operation
Route(req) ==
  IF req.handler # "config-share" THEN req.action
  ELSE CASE req.method = "GET" -> IF req.action = "preview" THEN "preview" ELSE "browse"
         [] req.method = "POST" -> IF req.action \in {"copy", "upload"} THEN req.action
                                    ELSE "invalid"
         [] req.method = "PATCH" -> IF req.action = "visibility" THEN "visibility" ELSE "invalid"
         [] req.method = "DELETE" -> "delete"
         [] OTHER -> "none"

\* the parameter checks an operation makes before its first store call: the
\* 400 response, or status 0 to go on
ShareParams(op, req) ==
  CASE op \in {"preview", "copy", "delete"} ->
         IF req.configId = "" THEN ShareResponse(400, "Missing config ID")
         ELSE ShareResponse(0, "")
    [] op = "upload" ->
         IF req.configData = NoConfigData THEN ShareResponse(400, "Missing config data")
         ELSE IF configSizeBytes(req.configData) > MAX_SIZE
           THEN ShareResponse(400, "Config size exceeds 5MB limit")
         ELSE ShareResponse(0, "")
    [] op = "visibility" ->
         IF req.configId = "" \/ req.isPublic \notin {"true", "false"}
           THEN ShareResponse(400, "Missing configId or isPublic")
         ELSE ShareResponse(0, "")
    [] op = "invalid" -> ShareResponse(400, "Invalid action")
    [] op = "none" -> ShareResponse(405, "Method not allowed")
    [] OTHER -> ShareResponse(0, "")

\* the first store call of an operation
ShareLabel(op) ==
  CASE op = "preview" -> "s_preview"
    [] op = "copy" -> "s_copy"
    [] op = "upload" -> "s_insert"
    [] op = "visibility" -> "s_visibility"
    [] op = "delete" -> "s_delete"
    [] OTHER -> "s_browse"

\* the request arrives: token check, routing, parameter checks
ShareBegin(p, req, cap) ==
  /\ Arrive(p, cap)
  /\ LET gate == ShareGate(req)
         params == ShareParams(Route(req), req)
     IN IF gate.status # 0 THEN Reject(p, req, gate)
        ELSE IF params.status # 0 THEN Reject(p, req, params)
        ELSE /\ pc' = [pc EXCEPT ![p] = ShareLabel(Route(req))]
             /\ args' = [args EXCEPT ![p] = req]
             /\ local' = [local EXCEPT ![p] =
                  [NoLocal EXCEPT !.call = [NoCall EXCEPT !.caller = "share",
                                              !.deviceId = TokenDeviceId(req.token)]]]
             /\ UNCHANGED resp
  /\ UNCHANGED <<masterKillSwitch, device_bindings, shareVars, logVars>>


\* const { data, error } = await supabase...: the error of a store call
\* that failed
StoreError(fault) == IF fault THEN "storeError" ELSE "none"

\* handlePreview / handleCopy: the select returns; access check
\* (data.device_id !== deviceId && !data.is_public)
\* (mutant: the owner is not looked at)
MutAccessDeniedPublicOnly(data, deviceId) == ~data.is_public

AccessDenied(data, deviceId) == data.device_id # deviceId /\ ~data.is_public

ShareFetch(p, fault) ==
  /\ pc[p] \in {"s_preview", "s_copy"}
  /\ LET deviceId == local[p].call.deviceId
         data == IF fault THEN NoConfig
                 ELSE SingleConfig(ConfigsOfId(shared_configs, args[p].configId))
     IN IF data = NoConfig
          THEN Finish(p, ShareResponse(404, "Config not found"), StoreError(fault))
        ELSE IF AccessDenied(data, deviceId)
          THEN Finish(p, ShareResponse(403, IF pc[p] = "s_preview" THEN "Access denied"
                                            ELSE "Cannot copy private config"), "none")
        ELSE Await(p, IF pc[p] = "s_preview" THEN "s_view_count" ELSE "s_copy_count",
                   [local[p] EXCEPT !.data = data])
  /\ UNCHANGED <<masterKillSwitch, device_bindings, shareVars, logVars>>

\* .update({ view_count: (data.view_count || 0) + 1 }).eq('id', configId)
CountView(table, configId, data) ==
  {IF r.id = configId THEN [r EXCEPT !.view_count = data.view_count + 1] ELSE r : r \in table}

\* .update({ copy_count: (data.copy_count || 0) + 1, last_copied_at }).eq('id', configId)
CountCopy(table, configId, data, now) ==
  {IF r.id = configId
     THEN [r EXCEPT !.copy_count = data.copy_count + 1, !.last_copied_at = now]
     ELSE r : r \in table}

\* the counter update returns (its outcome is not looked at); the config is
\* sent as it was read
ShareCount(p, fault) ==
  /\ pc[p] \in {"s_view_count", "s_copy_count"}
  /\ LET data == local[p].data
     IN IF pc[p] = "s_view_count"
          THEN /\ shared_configs' = IF fault THEN shared_configs
                                    ELSE CountView(shared_configs, args[p].configId, data)
               /\ Finish(p, [ShareResponse(200, "") EXCEPT !.config = data], "none")
          ELSE /\ shared_configs' = IF fault THEN shared_configs
                                    ELSE CountCopy(shared_configs, args[p].configId, data, p)
               /\ Finish(p, [ShareResponse(200, "") EXCEPT !.configData = data.config_data],
                         "none")
  /\ UNCHANGED <<masterKillSwitch, device_bindings, logVars>>

\* the id the store gives the row request p inserts
NewId(p) == ToString(p)

\* created_at of a row: the store's default, the time of the insert
\* (negative: before the calls)
CreatedAt(row, now) == [row EXCEPT !.created_at = now]

\* handleUpload: the insert returns
ShareInsert(p, fault) ==
  /\ pc[p] = "s_insert"
  /\ LET row == NewConfig(NewId(p), local[p].call.deviceId, args[p].isPublic,
                          args[p].configData)
     IN IF fault
          THEN /\ Finish(p, ShareResponse(500, "Failed to upload config"), "storeError")
               /\ UNCHANGED shared_configs
          ELSE /\ shared_configs' = shared_configs \cup {CreatedAt(row, Now(p))}
               /\ Finish(p, [ShareResponse(200, "") EXCEPT
                               !.configId = row.id,
                               !.message = "Config uploaded successfully"], "none")
  /\ UNCHANGED <<masterKillSwitch, device_bindings, logVars>>

\* .update({ is_public: isPublic }).eq('id', configId).eq('device_id', deviceId)
\* mutant: the update toggles the flag
MutToggleVisibility(table, configId, deviceId, isPublic) ==
  {IF r.id = configId /\ r.device_id = deviceId THEN [r EXCEPT !.is_public = ~r.is_public]
     ELSE r : r \in table}

SetVisibility(table, configId, deviceId, isPublic) ==
  {IF r.id = configId /\ r.device_id = deviceId THEN [r EXCEPT !.is_public = isPublic] ELSE r :
     r \in table}

\* handleVisibility: the update returns the row it changed
ShareVisibility(p, fault) ==
  /\ pc[p] = "s_visibility"
  /\ LET deviceId == local[p].call.deviceId
         isPublic == (args[p].isPublic = "true")
         table == IF fault THEN shared_configs
                  ELSE SetVisibility(shared_configs, args[p].configId, deviceId, isPublic)
         data == IF fault THEN NoConfig
                 ELSE SingleConfig(ConfigsOfIdDevice(table, args[p].configId, deviceId))
     IN /\ shared_configs' = table
        /\ IF data = NoConfig
             THEN Finish(p, ShareResponse(404, "Config not found or access denied"),
                         StoreError(fault))
             ELSE Finish(p, [ShareResponse(200, "") EXCEPT
                               !.isPublic = IF data.is_public THEN "true" ELSE "false"],
                         "none")
  /\ UNCHANGED <<masterKillSwitch, device_bindings, logVars>>

\* .delete().eq('id', configId).eq('device_id', deviceId)
\* (mutant: the owner filter is missing)
MutDeleteAnyOwner(table, configId, deviceId) == table \ ConfigsOfId(table, configId)

DeleteConfig(table, configId, deviceId) == table \ ConfigsOfIdDevice(table, configId, deviceId)

\* handleDelete: the delete returns the row it removed
ShareDelete(p, fault) ==
  /\ pc[p] = "s_delete"
  /\ LET deviceId == local[p].call.deviceId
         table == IF fault THEN shared_configs
                  ELSE DeleteConfig(shared_configs, args[p].configId, deviceId)
         data == IF fault THEN NoConfig ELSE SingleConfig(shared_configs \ table)
     IN /\ shared_configs' = table
        /\ IF data = NoConfig
             THEN Finish(p, ShareResponse(404, "Config not found or access denied"),
                         StoreError(fault))
             ELSE Finish(p, [ShareResponse(200, "") EXCEPT
                               !.message = "Config deleted successfully"], "none")
  /\ UNCHANGED <<masterKillSwitch, device_bindings, logVars>>

\* handleBrowse: the select returns (default page and limit: every matching
\* row is on the page)
ShareBrowse(p, fault) ==
  /\ pc[p] = "s_browse"
  /\ IF fault
       THEN Finish(p, ShareResponse(500, "Failed to fetch configs"), "storeError")
       ELSE LET page == PageOf(args[p].page)
                limit == LimitOf(args[p].limit)
                offset == (page - 1) * limit
                rows == BrowseRows(shared_configs, local[p].call.deviceId, args[p].own)
            IN Finish(p, [ShareResponse(200, "") EXCEPT
                            !.configs = Range(OrderNewestFirst(rows), offset,
                                              offset + limit - 1)], "none")
  /\ UNCHANGED <<masterKillSwitch, device_bindings, shareVars, logVars>>

ShareStep(p, cap, faults, inputs) ==
  \/ \E req \in inputs : ShareBegin(p, req, cap)
  \/ \E fault \in faults : ShareFetch(p, fault)
  \/ \E fault \in faults : ShareCount(p, fault)
  \/ \E fault \in faults : ShareInsert(p, fault)
  \/ \E fault \in faults : ShareVisibility(p, fault)
  \/ \E fault \in faults : ShareDelete(p, fault)
  \/ \E fault \in faults : ShareBrowse(p, fault)


(***************************************************************************)
(* The config-share store alone.  D1 owns a private config A and a public  *)
(* config B; the clients hold tokens whose payload names their device in   *)
(* the device_id claim config-share.js reads.                              *)
(***************************************************************************)
\* a verifying token with the device_id claim
DeviceToken(deviceId) ==
  [NoToken EXCEPT !.device_id = deviceId, !.purpose = "honed-license", !.sig = "secretKey"]

\* configData: "{}"; ASCII text of exactly MAX_SIZE characters, and of one
\* more; text of 2 Mi three-byte characters (6 MiB in UTF-8)
SmallConfig == [name |-> "small", chars |-> 2, bytes |-> 2]
LimitConfig == [name |-> "limit", chars |-> MAX_SIZE, bytes |-> MAX_SIZE]
OverConfig == [name |-> "over", chars |-> MAX_SIZE + 1, bytes |-> MAX_SIZE + 1]
WideConfig == [name |-> "wide", chars |-> 2 * 1024 * 1024, bytes |-> 6 * 1024 * 1024]

ConfigA == CreatedAt(NewConfig("A", D1, "false", SmallConfig), -2)
ConfigB == CreatedAt(NewConfig("B", D1, "true", SmallConfig), -1)

Preview(deviceId, configId) ==
  ShareRequest("config-share", "GET", DeviceToken(deviceId), "preview", configId)
Copy(deviceId, configId) ==
  ShareRequest("config-share", "POST", DeviceToken(deviceId), "copy", configId)
Delete(deviceId, configId) ==
  ShareRequest("config-share", "DELETE", DeviceToken(deviceId), "", configId)
Visibility(deviceId, configId, isPublic) ==
  [ShareRequest("config-share", "PATCH", DeviceToken(deviceId), "visibility", configId)
     EXCEPT !.isPublic = isPublic]
Upload(deviceId, isPublic, configData) ==
  [ShareRequest("config-share", "POST", DeviceToken(deviceId), "upload", "")
     EXCEPT !.isPublic = isPublic, !.configData = configData]
Browse(deviceId, own) ==
  [ShareRequest("config-share", "GET", DeviceToken(deviceId), "browse", "") EXCEPT !.own = own]

ShareInputs ==
  {Preview(D1, "A"), Preview(D1, "B"), Preview(D2, "A"), Preview(D2, "B"),
   Copy(D1, "A"), Copy(D2, "A"), Copy(D2, "B"),
   Delete(D1, "A"), Delete(D2, "B"), Delete(D2, "Z"),
   Visibility(D1, "B", "true"), Visibility(D1, "B", "false"), Visibility(D2, "A", "true"),
   Visibility(D2, "Z", "true"),
   Upload(D2, "true", LimitConfig), Upload(D1, "false", OverConfig),
   Upload(D1, "false", WideConfig),
   Browse(D2, FALSE),
   ShareRequest("config-share", "GET", NoToken, "preview", "B")}

InitShare ==
  /\ masterKillSwitch = FALSE
  /\ device_bindings = {}
  /\ shared_configs = {ConfigA, ConfigB}
  /\ InitRequests

NextShare == \E p \in Requests : ShareStep(p, ShareRequests, BOOLEAN, ShareInputs)

SpecShare == InitShare /\ [][NextShare]_vars

(***************************************************************************)
(* The counters: previews and copies of the public config B and of the     *)
(* private config A, by the owner and by D2, while every store call        *)
(* succeeds.                                                               *)
(***************************************************************************)
CountInputs == {Preview(D1, "B"), Preview(D2, "B"), Preview(D2, "A"), Copy(D2, "B"), Copy(D1, "A")}

NextCount ==
  \E p \in Requests :
    \/ \E req \in CountInputs : ShareBegin(p, req, CountRequests)
    \/ ShareFetch(p, FALSE)
    \/ ShareCount(p, FALSE)

SpecCount == InitShare /\ [][NextCount]_vars

(***************************************************************************)
(* Browsing.  D1 and D2 each own a public and a private config; pages of   *)
(* one row and the default page are asked for, by both devices, of their   *)
(* own configs and of the others'.                                         *)
(***************************************************************************)
ConfigC == CreatedAt(NewConfig("C", D2, "true", SmallConfig), -4)
ConfigE == CreatedAt(NewConfig("E", D2, "false", SmallConfig), -3)

BrowsePage(deviceId, own, page, limit) ==
  [Browse(deviceId, own) EXCEPT !.page = page, !.limit = limit]

BrowseInputs ==
  {BrowsePage(d, own, pl[1], pl[2]) :
     d \in {D1, D2}, own \in BOOLEAN, pl \in {<<0, 0>>, <<1, 1>>, <<2, 1>>, <<3, 1>>}}
    \cup {Upload(D2, "true", SmallConfig), Visibility(D1, "A", "true"), Delete(D2, "C")}

InitBrowse ==
  /\ masterKillSwitch = FALSE
  /\ device_bindings = {}
  /\ shared_configs = {ConfigA, ConfigB, ConfigC, ConfigE}
  /\ InitRequests

NextBrowse ==
  \E p \in Requests :
    \/ \E req \in BrowseInputs : ShareBegin(p, req, BrowseRequests)
    \/ \E fault \in BOOLEAN : ShareInsert(p, fault)
    \/ \E fault \in BOOLEAN : ShareVisibility(p, fault)
    \/ \E fault \in BOOLEAN : ShareDelete(p, fault)
    \/ \E fault \in BOOLEAN : ShareBrowse(p, fault)

SpecBrowse == InitBrowse /\ [][NextBrowse]_vars


(***************************************************************************)
(* The whole backend: validate, charge, refill and community requests      *)
(* interleaved.  Maintenance is off; KF is bound to D1.                    *)
(***************************************************************************)
Init ==
  /\ masterKillSwitch = FALSE
  /\ device_bindings = {NewBinding(KF, D1)}
  /\ shared_configs = {ConfigA, ConfigB}
  /\ InitRequests

BackendValidateInputs ==
  {ValidateRequest("GET", K1, D1), ValidateRequest("GET", K1, D2),
   ValidateRequest("GET", KF, D2)}

BackendChargeInputs == {ChargeRequest(KF, D1, "heartbeat", TRUE)}

BackendRefillInputs == {RefillRequest(KF, D1, 2)}

\* the session tokens validate has handed out
MintedTokens ==
  {resp[q].token : q \in {r \in Requests : pc[r] = "done" /\ resp[r].kind = "validate"
                                              /\ resp[r].valid}}

\* the six config-share operations, through config-share.js and through the
\* single-operation files
ShareOperations(h, token) ==
  {ShareRequest(h, "GET", token, "preview", "B"),
   ShareRequest(h, "GET", token, "browse", ""),
   ShareRequest(h, "POST", token, "copy", "B"),
   [ShareRequest(h, "POST", token, "upload", "") EXCEPT !.configData = SmallConfig],
   [ShareRequest(h, "PATCH", token, "visibility", "A") EXCEPT !.isPublic = "true"],
   ShareRequest(h, "DELETE", token, "delete", "A")}

\* config-share requests of a session: with the tokens validate minted, and
\* D2's with a token that has the device_id claim
SessionShareInputs ==
  UNION {ShareOperations(h, t) : h \in {"config-share", "file"},
                                 t \in MintedTokens \cup {DeviceToken(D2)}}

SessionValidateInputs == {ValidateRequest("GET", K1, D1), ValidateRequest("GET", K1, D2)}

CommunityStep(p, cap, faults) ==
  \/ \E req \in CommunityInputs : CommunityBegin(p, req, cap)
  \/ \E fault \in faults : CommunityTrack(p, fault)
  \/ \E ok \in BOOLEAN : CommunityUpstream(p, ok)

Next ==
  \E p \in Requests :
    \/ ValidateStep(p, MaxRequests, BOOLEAN, BackendValidateInputs)
    \/ MeterStep(p, MaxRequests, BOOLEAN, BackendChargeInputs, BackendRefillInputs)
    \/ CommunityStep(p, MaxRequests, BOOLEAN)

Spec == Init /\ [][Next]_vars

(***************************************************************************)
(* community requests on a table of several bindings: KF and KO are bound  *)
(* to D1, KR is bound to D2.  The clients hold the tokens validate minted  *)
(* for these bindings.                                                     *)
(***************************************************************************)
InitTrack ==
  /\ masterKillSwitch = FALSE
  /\ device_bindings = {NewBinding(KF, D1), NewBinding(KO, D1), NewBinding(KR, D2)}
  /\ shared_configs = {}
  /\ InitRequests

NextTrack ==
  \E p \in Requests :
    \/ CommunityStep(p, TrackRequests, BOOLEAN)
    \/ \E fault \in BOOLEAN : ChargeFetch(p, fault)
    \/ \E fault \in BOOLEAN : ChargeUpdate(p, fault)

SpecTrack == InitTrack /\ [][NextTrack]_vars


(***************************************************************************)
(* A session: validate requests, and config-share requests that present    *)
(* the tokens validate handed out.  No key is bound yet.                   *)
(***************************************************************************)
InitSession ==
  /\ masterKillSwitch = FALSE
  /\ device_bindings = {}
  /\ shared_configs = {ConfigA, ConfigB}
  /\ InitRequests

NextSession ==
  \E p \in Requests :
    \/ ValidateStep(p, SessionRequests, BOOLEAN, SessionValidateInputs)
    \/ ShareStep(p, SessionRequests, BOOLEAN, SessionShareInputs)

SpecSession == InitSession /\ [][NextSession]_vars

(***************************************************************************)
(* supabase handler: token check, then the admins and tokens tables are    *)
(* read and sent in the sheet format.                                      *)
(***************************************************************************)
ProxyResponse(kind, status, error) == [kind |-> kind, status |-> status, error |-> error]

SupabaseRequest(method, token) ==
  [NoArgs EXCEPT !.handler = "supabase", !.method = method, !.token = token]

\* the request arrives: preflight, method, Authorization header, token
SupabaseBegin(p, req, cap) ==
  /\ Arrive(p, cap)
  /\ IF req.method = "OPTIONS" THEN Reject(p, req, ProxyResponse("supabase", 200, "none"))
     ELSE IF req.method # "GET"
       THEN Reject(p, req, ProxyResponse("supabase", 405, "Method not allowed"))
     ELSE IF req.token = NoToken
       THEN Reject(p, req, ProxyResponse("supabase", 401, "Unauthorized - No token provided"))
     ELSE IF verifyToken(req.token) = NoToken
       THEN Reject(p, req, ProxyResponse("supabase", 401,
                                         "Unauthorized - Invalid or expired token"))
     ELSE /\ pc' = [pc EXCEPT ![p] = "u_admins"]
          /\ args' = [args EXCEPT ![p] = req]
          /\ UNCHANGED <<resp, local>>
  /\ UNCHANGED <<masterKillSwitch, device_bindings, shareVars, logVars>>

\* the select on admins returns
SupabaseAdmins(p, fault) ==
  /\ pc[p] = "u_admins"
  /\ IF fault THEN Finish(p, ProxyResponse("supabase", 500, "adminsError"), "storeError")
     ELSE Await(p, "u_tokens", local[p])
  /\ UNCHANGED <<masterKillSwitch, device_bindings, shareVars, logVars>>

\* the select on tokens returns
SupabaseTokens(p, fault) ==
  /\ pc[p] = "u_tokens"
  /\ IF fault THEN Finish(p, ProxyResponse("supabase", 500, "tokensError"), "storeError")
     ELSE Finish(p, ProxyResponse("supabase", 200, "none"), "none")
  /\ UNCHANGED <<masterKillSwitch, device_bindings, shareVars, logVars>>

(***************************************************************************)
(* twitter handlers: twitter.js (user info) and the generic pass-through.  *)
(***************************************************************************)
TwitterRequest(handler, method, token, userName) ==
  [NoArgs EXCEPT !.handler = handler, !.method = method, !.token = token,
                 !.userName = userName]

\* the request arrives: preflight, method, and for twitter.js the userName
\* parameter; then the provider is called
TwitterBegin(p, req, cap) ==
  /\ Arrive(p, cap)
  /\ IF req.method = "OPTIONS" THEN Reject(p, req, ProxyResponse("twitter", 200, "none"))
     ELSE IF req.method # "GET"
       THEN Reject(p, req, ProxyResponse("twitter", 405, "Method not allowed"))
     ELSE IF req.handler = "twitter" /\ req.userName = ""
       THEN Reject(p, req, ProxyResponse("twitter", 400, "Missing userName"))
     ELSE /\ pc' = [pc EXCEPT ![p] = "t_upstream"]
          /\ args' = [args EXCEPT ![p] = req]
          /\ UNCHANGED <<resp, local>>
  /\ UNCHANGED <<masterKillSwitch, device_bindings, shareVars, logVars>>

\* the provider answers
TwitterUpstream(p, ok) ==
  /\ pc[p] = "t_upstream"
  /\ IF ok THEN Finish(p, ProxyResponse("twitter", 200, "none"), "none")
     ELSE Finish(p, ProxyResponse("twitter", 500, "Twitter API error"), "none")
  /\ UNCHANGED <<masterKillSwitch, device_bindings, shareVars, logVars>>

(***************************************************************************)
(* The token-gated handlers and the proxies, with every kind of token a    *)
(* client can present.  KF is bound to D1.                                 *)
(***************************************************************************)
\* the token presented after its exp
Expired(token) == [token EXCEPT !.age = "expired"]

\* a token signed with the secret for another purpose
OtherPurpose(token) == [token EXCEPT !.purpose = "other"]

\* a token minted for a binding that exists
GoodTokens == {generateToken(r.license_key, r.device_id) : r \in device_bindings}

BadTokens ==
  {NoToken, ForgedToken} \cup {Expired(t) : t \in GoodTokens \cup {DeviceToken(D1)}}
    \cup {OtherPurpose(t) : t \in GoodTokens \cup {DeviceToken(D1)}}

GateCommunityInputs ==
  {CommunityRequest(m, t, "1234") : m \in {"GET", "POST"}, t \in GoodTokens \cup BadTokens}

GateSupabaseInputs == {SupabaseRequest(m, t) : m \in {"GET", "POST"}, t \in GoodTokens \cup BadTokens}

GateShareInputs ==
  {ShareRequest("config-share", "GET", t, "preview", "B") : t \in BadTokens}
    \cup {[ShareRequest("config-share", "POST", t, "upload", "") EXCEPT
             !.configData = SmallConfig] : t \in BadTokens}

GateTwitterInputs ==
  {TwitterRequest(h, "GET", t, u) :
     h \in {"twitter", "twitter-proxy"}, t \in {NoToken} \cup GoodTokens, u \in {"", "jack"}}

NextGate ==
  \E p \in Requests :
    \/ \E req \in GateCommunityInputs : CommunityBegin(p, req, GateRequests)
    \/ \E fault \in BOOLEAN : ChargeFetch(p, fault)
    \/ \E fault \in BOOLEAN : ChargeUpdate(p, fault)
    \/ \E fault \in BOOLEAN : CommunityTrack(p, fault)
    \/ \E ok \in BOOLEAN : CommunityUpstream(p, ok)
    \/ \E req \in GateSupabaseInputs : SupabaseBegin(p, req, GateRequests)
    \/ \E fault \in BOOLEAN : SupabaseAdmins(p, fault)
    \/ \E fault \in BOOLEAN : SupabaseTokens(p, fault)
    \/ \E req \in GateShareInputs : ShareBegin(p, req, GateRequests)
    \/ \E req \in GateTwitterInputs : TwitterBegin(p, req, GateRequests)
    \/ \E ok \in BOOLEAN : TwitterUpstream(p, ok)

SpecGate == Init /\ [][NextGate]_vars


(***************************************************************************)
(* Tokens over time.  KR was bound to D1 and its token minted before the   *)
(* key was revoked; KF is bound to D2.  The tokens are presented 0, 4, 5   *)
(* and 6 minutes after they were minted.                                   *)
(***************************************************************************)
Minutes == {0, TokenLifetime - 1, TokenLifetime, TokenLifetime + 1}

\* a request presented some minutes after its token was issued
After(req, minutes) ==
  [req EXCEPT !.token = PresentedAfter(req.token, minutes), !.elapsed = minutes]

ExpiryTokens == GoodTokens \cup {DeviceToken(D1)}

ExpiryCommunityInputs ==
  {After(CommunityRequest("GET", t, "1234"), m) : t \in ExpiryTokens, m \in Minutes}

ExpirySupabaseInputs == {After(SupabaseRequest("GET", t), m) : t \in ExpiryTokens, m \in Minutes}

ExpiryShareInputs ==
  {After(ShareRequest("config-share", "GET", t, "preview", "B"), m) :
     t \in ExpiryTokens, m \in Minutes}

InitExpiry ==
  /\ masterKillSwitch = FALSE
  /\ device_bindings = {NewBinding(KR, D1), NewBinding(KF, D2)}
  /\ shared_configs = {ConfigA, ConfigB}
  /\ InitRequests

NextExpiry ==
  \E p \in Requests :
    \/ \E req \in ExpiryCommunityInputs : CommunityBegin(p, req, ExpiryRequests)
    \/ \E fault \in BOOLEAN : ChargeFetch(p, fault)
    \/ \E fault \in BOOLEAN : ChargeUpdate(p, fault)
    \/ \E fault \in BOOLEAN : CommunityTrack(p, fault)
    \/ \E ok \in BOOLEAN : CommunityUpstream(p, ok)
    \/ \E req \in ExpirySupabaseInputs : SupabaseBegin(p, req, ExpiryRequests)
    \/ \E fault \in BOOLEAN : SupabaseAdmins(p, fault)
    \/ \E fault \in BOOLEAN : SupabaseTokens(p, fault)
    \/ \E req \in ExpiryShareInputs : ShareBegin(p, req, ExpiryRequests)
    \/ \E fault \in BOOLEAN : ShareFetch(p, fault)
    \/ \E fault \in BOOLEAN : ShareCount(p, fault)

SpecExpiry == InitExpiry /\ [][NextExpiry]_vars


(***************************************************************************)
(* Vocabulary of the properties.                                           *)
(***************************************************************************)
InsertLabels == {"v1_insert", "v2_insert"}
StoreCallLabels ==
  {"v1_fetch", "v1_insert", "v2_license", "v2_fetch", "v2_notification", "v2_insert"}

\* the key is in the allowlist of the first handler and in the table of the second
Provisioned(k) == k \in VALID_LICENSE_KEYS /\ k \in DOMAIN license_keys
\* the key is in neither
Unknown(k) == k \notin VALID_LICENSE_KEYS /\ k \notin DOMAIN license_keys
\* the key is revoked for one of the handlers
Revoked(k) ==
  k \in revokedKeys \/ (IF k \in DOMAIN license_keys THEN license_keys[k].revoked ELSE FALSE)

\* request p is a GET with both parameters
WellFormed(a) == a.method = "GET" /\ a.key # NoKey /\ a.deviceId # NoDevice

\* request p is answered in this step
Answers(p) == pc[p] # "done" /\ pc'[p] = "done"

\* request p read 'no binding' and the binding of its key was created since
Raced(p) == pc[p] \in InsertLabels /\ RowsOfKey(device_bindings, args[p].key) # {}

\* C1: for a valid, unrevoked key (maintenance off, the store answering), the
\* validate answered while the key has no binding returns valid=true and
\* creates the binding key -> its device; every validate of that key that
\* reads the binding once it exists, from another device, returns
\* DEVICE_MISMATCH without a token and leaves the key's row as it is.
C1_FirstBindsLaterMismatch ==
  [][\A p \in Requests :
       LET a == args'[p]
           before == RowsOfKey(device_bindings, a.key)
           after == RowsOfKey(device_bindings', a.key)
       IN (/\ Answers(p)
           /\ ~masterKillSwitch
           /\ WellFormed(a) /\ Provisioned(a.key) /\ ~Revoked(a.key)
           /\ local'[p].error # "storeError")
          => /\ before = {}
                  => /\ resp'[p].valid /\ resp'[p].reason = "VALID"
                     /\ after = {NewBinding(a.key, a.deviceId)}
             /\ (before # {} /\ ~Raced(p) /\ \A r \in before : r.device_id # a.deviceId)
                  => /\ ~resp'[p].valid /\ resp'[p].reason = "DEVICE_MISMATCH"
                     /\ resp'[p].token = NoToken
                     /\ after = before]_vars

\* C1 witness: K1 was bound by one request and another device was refused
C1_Witness ==
  \E p, q \in Requests :
    /\ pc[p] = "done" /\ pc[q] = "done"
    /\ args[p].key = K1 /\ args[q].key = K1 /\ args[q].deviceId # args[p].deviceId
    /\ resp[p].valid /\ resp[p].newDevice
    /\ resp[q].reason = "DEVICE_MISMATCH"
    /\ RowsOfKey(device_bindings, K1) = {NewBinding(K1, args[p].deviceId)}

\* C2: in every step of any interleaving of validate, charge, refill and
\* community requests the table keeps at most one row per license key, and
\* every row stays, with its license key and its device id.
C2_OneImmutableBindingPerKey ==
  [][/\ \A r1, r2 \in device_bindings' : r1.license_key = r2.license_key => r1 = r2
     /\ \A r \in device_bindings :
          \E r2 \in device_bindings' :
            r2.license_key = r.license_key /\ r2.device_id = r.device_id]_vars

\* C2 witness: the community handler's update by device id has run on the
\* row of KF, a validate of KF from another device was refused, and KF is
\* still bound to D1
C2_Witness ==
  /\ \E p, q \in Requests :
       /\ pc[p] = "done" /\ resp[p].kind = "community" /\ resp[p].status = 200
       /\ pc[q] = "done" /\ resp[q].kind = "validate" /\ resp[q].reason = "DEVICE_MISMATCH"
       /\ args[q].key = KF
  /\ \E r \in device_bindings :
       /\ RowsOfKey(device_bindings, KF) = {r}
       /\ r.device_id = D1 /\ r.last_endpoint = "community"
       /\ r.credits_remaining < DefaultCredits

\* C3 (as claimed): the request whose insert the unique constraint rejected
\* does not end in ERROR / 500 but in VALID or DEVICE_MISMATCH according to
\* the winner's binding.
C3_LoserReevaluates ==
  \A p \in Requests :
    (pc[p] = "done" /\ local[p].error = "23505")
      => /\ resp[p].status # 500
         /\ resp[p].reason =
              (IF \E r \in RowsOfKey(device_bindings, args[p].key) : r.device_id = args[p].deviceId
                 THEN "VALID" ELSE "DEVICE_MISMATCH")

\* C8: with the kill switch set every GET validate is answered MAINTENANCE
\* without a token, no request ever waits for a store call, and the table is
\* as it was.
C8_MaintenanceShortCircuits ==
  masterKillSwitch =>
    /\ device_bindings = {NewBinding(KR, D1)}
    /\ \A p \in Requests :
         /\ pc[p] \notin StoreCallLabels
         /\ (pc[p] = "done" /\ args[p].method = "GET")
              => /\ resp[p].reason = "MAINTENANCE" /\ ~resp[p].valid
                 /\ resp[p].token = NoToken /\ ~resp[p].newDevice

\* C8 witness: under maintenance a good key, a revoked key and a request
\* without a key have all been answered
C8_Witness ==
  /\ masterKillSwitch
  /\ \E p, q, r \in Requests :
       /\ pc[p] = "done" /\ pc[q] = "done" /\ pc[r] = "done"
       /\ args[p] = ValidateRequest("GET", K1, D1)
       /\ args[q] = ValidateRequest("GET", KR, D1)
       /\ args[r] = ValidateRequest("GET", NoKey, D1)
       /\ resp[p].reason = "MAINTENANCE"

\* C9 (as claimed): unless the store fails, the answer is that of the first
\* matching step of maintenance, missing parameter, unknown key, revoked key,
\* binding; an unknown key is INVALID also when it is listed as revoked.
C9_DecisionOrder ==
  \A p \in Requests :
    (pc[p] = "done" /\ args[p].method = "GET" /\ local[p].error # "storeError")
      => IF masterKillSwitch THEN resp[p].reason = "MAINTENANCE"
         ELSE IF args[p].key = NoKey \/ args[p].deviceId = NoDevice
           THEN resp[p].reason = "INVALID_REQUEST" /\ resp[p].status = 400
         ELSE IF Unknown(args[p].key) THEN resp[p].reason = "INVALID"
         ELSE IF Revoked(args[p].key)
           THEN resp[p].reason = "REVOKED" /\ resp[p].token = NoToken
         ELSE resp[p].reason \in {"VALID", "DEVICE_MISMATCH", "ERROR"}

\* C10: a response carries newDevice exactly when its request inserted the
\* binding in that step; a validate from the bound device that reads the
\* binding is VALID with a token and without newDevice.
C10_NewDeviceOnlyOnInsert ==
  [][\A p \in Requests :
       LET a == args'[p]
           before == RowsOfKey(device_bindings, a.key)
       IN Answers(p)
          => /\ resp'[p].newDevice
                  <=> (/\ device_bindings' # device_bindings
                       /\ device_bindings' \ device_bindings = {NewBinding(a.key, a.deviceId)})
             /\ (/\ ~masterKillSwitch /\ WellFormed(a)
                 /\ Provisioned(a.key) /\ ~Revoked(a.key)
                 /\ local'[p].error # "storeError" /\ ~Raced(p)
                 /\ \E r \in before : r.device_id = a.deviceId)
                  => /\ resp'[p].valid /\ resp'[p].reason = "VALID"
                     /\ resp'[p].token = generateToken(a.key, a.deviceId)
                     /\ ~resp'[p].newDevice]_vars

\* C10 witness: the scenario D1 registers, D2 is refused, D1 validates again
C10_Witness ==
  /\ pc = [p \in Requests |-> "done"]
  /\ args[1] = ValidateRequest("GET", K1, D1) /\ resp[1].newDevice
  /\ args[2] = ValidateRequest("GET", K1, D2) /\ resp[2].reason = "DEVICE_MISMATCH"
  /\ \E p \in Requests \ {1, 2} :
       /\ args[p] = ValidateRequest("GET", K1, D1)
       /\ resp[p].valid /\ resp[p].reason = "VALID" /\ ~resp[p].newDevice
       /\ resp[p].token # NoToken


(***************************************************************************)
(* Properties of the meter.                                                *)
(***************************************************************************)
\* the row trackApiUsage and refillCredits address
RowOf(table, licenseKey, deviceId) == Single(RowsOfKeyDevice(table, licenseKey, deviceId))

NonNegative(table) == \A r \in table : r.credits_remaining >= 0

\* C4: from non-negative balances every step of a charge or a refill leads
\* to non-negative balances, in every interleaving; a charge that reads a
\* balance below its cost is answered failure in that step and the table is
\* not written.
C4_NoOverdraft ==
  [][NonNegative(device_bindings) =>
       /\ NonNegative(device_bindings')
       /\ \A p \in Requests :
            LET call == local[p].call
                row == RowOf(device_bindings, call.licenseKey, call.deviceId)
            IN (/\ pc[p] = "c_fetch" /\ pc'[p] # "c_fetch"
                /\ row # NoRow /\ call.success
                /\ CostOf(call.endpoint) > row.credits_remaining)
               => /\ pc'[p] = "done" /\ ~resp'[p].success
                  /\ device_bindings' = device_bindings]_vars

\* C4 witness: a charge was refused for insufficient credits while another
\* charge of the same binding had brought the balance to 0
C4_Witness ==
  /\ \E r \in device_bindings : r.credits_remaining = 0 /\ r.total_credits_used > 0
  /\ \E p \in Requests :
       /\ pc[p] = "done" /\ resp[p].kind = "charge"
       /\ resp[p].error.text = "Insufficient credits"

\* C5: a charge with success=true that reads balance b of an existing
\* binding goes on to the update iff b >= cost (cost: the table entry, or 1
\* for a name not in the table); its update stores b - cost and the total it
\* read plus cost and returns the stored balance, which is the row's balance
\* minus cost when nothing wrote the row in between; with b < cost it returns
\* failure reporting b and cost and the table is unchanged.
C5_ChargeExact ==
  [][\A p \in Requests :
       LET call == local[p].call
           cost == IF call.endpoint \in DOMAIN CREDIT_COSTS
                     THEN CREDIT_COSTS[call.endpoint] ELSE 1
           row == RowOf(device_bindings, call.licenseKey, call.deviceId)
           row2 == RowOf(device_bindings', call.licenseKey, call.deviceId)
           read == local[p].binding
       IN /\ (/\ pc[p] = "c_fetch" /\ pc'[p] # "c_fetch" /\ call.success /\ row # NoRow
              /\ ~(pc'[p] = "done" /\ resp'[p].error.text = "Device binding not found"))
               => IF row.credits_remaining >= cost
                    THEN pc'[p] = "c_update" /\ local'[p].binding.credits_remaining = row.credits_remaining
                    ELSE /\ pc'[p] = "done" /\ ~resp'[p].success
                         /\ resp'[p].creditsRemaining = row.credits_remaining
                         /\ resp'[p].error = InsufficientMessage(cost, row.credits_remaining)
                         /\ device_bindings' = device_bindings
          /\ (/\ pc[p] = "c_update" /\ pc'[p] = "done" /\ call.success /\ row # NoRow
              /\ resp'[p].error.text # "update error")
               => /\ resp'[p].success /\ read.credits_remaining >= cost
                  /\ row2.credits_remaining = read.credits_remaining - cost
                  /\ row2.total_credits_used = read.total_credits_used + cost
                  /\ resp'[p].creditsRemaining = row2.credits_remaining
                  /\ resp'[p].creditsUsed = cost
                  /\ (read = SelectCredits(row))
                       => /\ row2.credits_remaining = row.credits_remaining - cost
                          /\ row2.total_credits_used = row.total_credits_used + cost]_vars

\* C5 witness: a charge whose cost equalled the balance succeeded and left 0,
\* and a charge of an endpoint that is not in the table was made
C5_Witness ==
  /\ RowOf(device_bindings, K1, D1).credits_remaining = 0
  /\ \E p, q \in Requests :
       /\ pc[p] = "done" /\ resp[p].kind = "charge" /\ resp[p].success
       /\ resp[p].creditsRemaining = 0 /\ resp[p].creditsUsed > 0
       /\ pc[q] = "done" /\ resp[q].kind = "charge" /\ resp[q].success
       /\ args[q].endpoint \notin DOMAIN CREDIT_COSTS /\ resp[q].creditsUsed = 1

\* C6 (as claimed): total_credits_used of a binding never decreases from
\* one state to the next.
C6_TotalNeverDecreases ==
  [][\A r \in device_bindings : \A r2 \in device_bindings' :
       (r2.license_key = r.license_key /\ r2.device_id = r.device_id)
         => r2.total_credits_used >= r.total_credits_used]_vars

\* the costs of the charges that returned success
RECURSIVE SumCharged(_)
SumCharged(S) ==
  IF S = {} THEN 0
  ELSE LET p == CHOOSE x \in S : TRUE
       IN (IF pc[p] = "done" /\ resp[p].kind = "charge" /\ resp[p].success
             THEN resp[p].creditsUsed ELSE 0) + SumCharged(S \ {p})

\* C7 (as claimed): once the charges have completed (no refill was made),
\* total_credits_used is its initial value plus the costs of the charges
\* that returned success and credits_remaining its initial value minus them.
C7_TotalIsSumOfCharges ==
  (\A p \in Requests : pc[p] \in {"idle", "done"} /\ resp[p].kind # "refill")
    => LET row == RowOf(device_bindings, K1, D1)
       IN /\ row.total_credits_used = 0 + SumCharged(Requests)
          /\ row.credits_remaining = DefaultCredits - SumCharged(Requests)

(***************************************************************************)
(* Session tokens and the handlers that take them.                         *)
(***************************************************************************)
\* request p is a config-share request that presented the token validate
\* request q minted
Presents(p, q) ==
  /\ pc[q] = "done" /\ resp[q].kind = "validate" /\ resp[q].valid
  /\ pc[p] = "done" /\ resp[p].kind = "share"
  /\ args[p].token = resp[q].token

\* C11: a config-share request that presents the unexpired token minted by
\* a successful validate(K, D) is not answered 401
C11_MintedTokenAccepted ==
  \A p, q \in Requests : Presents(p, q) => resp[p].status # 401

\* community request p presented the token validate request q minted
PresentsToCommunity(p, q) ==
  /\ pc[q] = "done" /\ resp[q].kind = "validate" /\ resp[q].valid
  /\ pc[p] # "idle" /\ args[p].method = "GET" /\ args[p].token = resp[q].token
  /\ args[p].handler = "community"

\* C12: a community request that presents the unexpired token minted by a
\* successful validate(K, D) charges the binding of (K, D), and while that
\* binding holds the cost of 'community' the request is not answered 402
C12_CommunityChargesBinding ==
  \A p, q \in Requests :
    PresentsToCommunity(p, q) =>
      /\ (pc[p] \in {"c_fetch", "c_update"} =>
            /\ local[p].call.licenseKey = args[q].key
            /\ local[p].call.deviceId = args[q].deviceId)
      /\ (pc[p] = "done" /\ RowOf(device_bindings, args[q].key, args[q].deviceId).credits_remaining
                              >= CostOf("community")
            => resp[p].status # 402)

\* the token is missing, has a bad signature, is expired or has another purpose
BadToken(token) ==
  \/ token = NoToken
  \/ token.sig # "secretKey"
  \/ token.age = "expired"
  \/ token.purpose # "honed-license"

\* the request is one an authenticated handler serves (not a preflight, and
\* for community and supabase a GET)
Gated(a) ==
  \/ a.handler \in {"community", "supabase"} /\ a.method = "GET"
  \/ a.handler = "config-share" /\ a.method # "OPTIONS"

\* C13: a request to the community, supabase or config-share handler whose
\* Authorization header is missing or whose token has a bad signature, is
\* expired or has another purpose is answered 401 in the step it arrives,
\* and that step writes nothing to the store (no binding, config or log
\* row changes, no credits are charged), so no provider call follows
C13_BadTokenGets401 ==
  [][\A p \in Requests :
       pc[p] = "idle" /\ pc'[p] # "idle" /\ Gated(args'[p]) /\ BadToken(args'[p].token)
         => /\ pc'[p] = "done"
            /\ resp'[p].status = 401
            /\ UNCHANGED <<device_bindings, shared_configs, activity_logs, log_inflight>>]_vars

\* reached: an expired token at the community handler, a token of another
\* purpose at the supabase handler, both answered 401
C13_Witness ==
  \E p, q \in Requests :
    /\ pc[p] = "done" /\ args[p].handler = "community" /\ args[p].method = "GET"
    /\ args[p].token.age = "expired" /\ args[p].token.sig = "secretKey"
    /\ resp[p].status = 401
    /\ pc[q] = "done" /\ args[q].handler = "supabase" /\ args[q].method = "GET"
    /\ args[q].token.purpose = "other" /\ args[q].token.sig = "secretKey"
    /\ resp[q].status = 401

\* C14: a proxy request waits for the provider only if it carried a session
\* token that verifies
C14_NoFetchWithoutToken ==
  \A p \in Requests :
    pc[p] \in {"m_upstream", "t_upstream"} => verifyToken(args[p].token) # NoToken

(***************************************************************************)
(* Config-share store.                                                     *)
(***************************************************************************)
\* the row with this id, as the store holds it now
ConfigOf(table, configId) == SingleConfig(ConfigsOfId(table, configId))

\* the device a config-share request acts for
Owner(p) == local[p].call.deviceId

\* request p makes a step
Steps(p) == pc'[p] # pc[p]

\* C15: when the select of a preview or copy by device D returns an
\* existing config, the request goes on to the counter update and then
\* answers 200 with the config it read iff D owns the config or the config
\* is public; otherwise it is answered 403 without config data and the
\* table is unchanged
C15_ReadAccess ==
  [][\A p \in Requests :
       /\ (pc[p] \in {"s_preview", "s_copy"} /\ Steps(p) /\ local'[p].error # "storeError"
             /\ ConfigOf(shared_configs, args[p].configId) # NoConfig
           => LET row == ConfigOf(shared_configs, args[p].configId)
              IN IF row.device_id = Owner(p) \/ row.is_public
                   THEN /\ pc'[p] = (IF pc[p] = "s_preview" THEN "s_view_count"
                                     ELSE "s_copy_count")
                        /\ local'[p].data = row
                   ELSE /\ pc'[p] = "done"
                        /\ resp'[p].status = 403
                        /\ resp'[p].config = NoConfig
                        /\ resp'[p].configData = NoConfigData
                        /\ shared_configs' = shared_configs)
       /\ (pc[p] \in {"s_view_count", "s_copy_count"} /\ Steps(p)
           => /\ pc'[p] = "done"
              /\ resp'[p].status = 200
              /\ IF pc[p] = "s_view_count" THEN resp'[p].config = local[p].data
                 ELSE resp'[p].configData = local[p].data.config_data)]_vars

\* reached: D2 was denied the private config A, and its owner D1 copied it
C15_Witness ==
  \E p, q \in Requests :
    /\ pc[p] = "done" /\ args[p] = Preview(D2, "A") /\ resp[p].status = 403
    /\ pc[q] = "done" /\ args[q] = Copy(D1, "A") /\ resp[q].status = 200
    /\ resp[q].configData = SmallConfig

\* what a delete or setVisibility answers for an id that does not exist
NotFoundOrDenied == ShareResponse(404, "Config not found or access denied")

\* C16: when the store call of a delete or setVisibility returns, a request
\* of a device that does not own the config gets the 404 a non-existent id
\* gets and the table is unchanged; the owner's delete removes exactly that
\* row and the owner's setVisibility sets is_public of exactly that row
C16_OwnerOnlyMutation ==
  [][\A p \in Requests :
       pc[p] \in {"s_delete", "s_visibility"} /\ Steps(p) /\ local'[p].error # "storeError"
       => LET row == ConfigOf(shared_configs, args[p].configId)
          IN /\ pc'[p] = "done"
             /\ IF row = NoConfig \/ row.device_id # Owner(p)
                  THEN /\ resp'[p] = NotFoundOrDenied
                       /\ shared_configs' = shared_configs
                  ELSE /\ resp'[p].status = 200
                       /\ shared_configs' =
                            IF pc[p] = "s_delete" THEN shared_configs \ {row}
                            ELSE (shared_configs \ {row})
                                   \cup {[row EXCEPT !.is_public = (args[p].isPublic = "true")]}]_vars

\* reached: D2 was refused the delete of D1's public config B, which is
\* still there, with the answer it got for the id Z that never existed; and
\* D1 deleted its config A
C16_Witness ==
  \E p, q \in Requests :
    /\ pc[p] = "done" /\ args[p] = Delete(D2, "B") /\ resp[p] = NotFoundOrDenied
    /\ local[p].error = "none"
    /\ pc[q] = "done" /\ args[q] = Delete(D1, "A") /\ resp[q].status = 200
    /\ shared_configs = {ConfigB}

\* C17: when the owner's setVisibility(id, v) finds is_public = v already,
\* the table is unchanged and the answer is success with isPublic = v
C17_VisibilityIdempotent ==
  [][\A p \in Requests :
       LET row == ConfigOf(shared_configs, args[p].configId)
       IN pc[p] = "s_visibility" /\ Steps(p) /\ local'[p].error # "storeError"
          /\ row # NoConfig /\ row.device_id = Owner(p)
          /\ row.is_public = (args[p].isPublic = "true")
          => /\ shared_configs' = shared_configs
             /\ pc'[p] = "done"
             /\ resp'[p].status = 200 /\ resp'[p].success
             /\ resp'[p].isPublic = args[p].isPublic]_vars

\* reached: the owner set B, which is public, to public twice
C17_Witness ==
  \E p, q \in Requests :
    /\ p # q
    /\ pc[p] = "done" /\ args[p] = Visibility(D1, "B", "true") /\ resp[p].status = 200
    /\ pc[q] = "done" /\ args[q] = Visibility(D1, "B", "true") /\ resp[q].status = 200
    /\ shared_configs = {ConfigA, ConfigB}

\* C18 (as claimed): an upload whose configData serializes to more than
\* 5 MiB is answered 400 when it arrives and never reaches the insert; an
\* upload within the limit that the store accepts adds exactly one row,
\* owned by the device of the token
C18_UploadSizeLimit ==
  [][\A p \in Requests :
       /\ (pc[p] = "idle" /\ Steps(p) /\ args'[p].action = "upload"
             /\ args'[p].handler = "config-share" /\ args'[p].method = "POST"
             /\ args'[p].configData.bytes > MAX_SIZE
           => pc'[p] = "done" /\ resp'[p].status = 400 /\ shared_configs' = shared_configs)
       /\ (pc[p] = "s_insert" /\ Steps(p) /\ local'[p].error # "storeError"
           => \E row \in shared_configs' :
                /\ row \notin shared_configs
                /\ shared_configs' = shared_configs \cup {row}
                /\ row.device_id = args[p].token.device_id
                /\ resp'[p].status = 200)]_vars

\* the binding of the call of p, as the store holds it
BindingOf(table, p) ==
  Single(RowsOfKeyDevice(table, local[p].call.licenseKey, local[p].call.deviceId))

\* C19: a charge called with success = false is never refused for its
\* balance, and when its update is written the binding keeps
\* credits_remaining, total_credits_used and last_credit_usage, has
\* last_seen and last_endpoint stamped by this call, the call returns
\* success with creditsUsed 0 and the balance it read, and an activity log
\* entry with credits_used 0 is dispatched
C19_FailedOperationChargesNothing ==
  [][\A p \in Requests :
       local[p].call.caller = "direct" /\ ~local[p].call.success /\ Steps(p)
       => LET row == BindingOf(device_bindings, p)
              after == BindingOf(device_bindings', p)
          IN /\ (pc[p] = "c_fetch" /\ pc'[p] = "done"
                 => resp'[p] = ChargeFailure("Device binding not found"))
             /\ (pc[p] = "c_update" /\ resp'[p] # ChargeFailure("update error")
                 => /\ after.credits_remaining = row.credits_remaining
                    /\ after.total_credits_used = row.total_credits_used
                    /\ after.last_credit_usage = row.last_credit_usage
                    /\ after.last_seen = Now(p)
                    /\ after.last_endpoint = local[p].call.endpoint
                    /\ pc'[p] = "done"
                    /\ resp'[p].success
                    /\ resp'[p].creditsUsed = 0
                    /\ resp'[p].creditsRemaining = local[p].binding.credits_remaining
                    /\ resp'[p].totalUsed = local[p].binding.total_credits_used
                    /\ \E entry \in log_inflight' \ log_inflight :
                         /\ entry.call = p /\ entry.credits_used = 0 /\ ~entry.success
                         /\ entry.license_key = local[p].call.licenseKey
                         /\ entry.device_id = local[p].call.deviceId)]_vars

\* reached: a failed operation was recorded on a binding with no credits
C19_Witness ==
  \E p \in Requests : \E row \in device_bindings :
    /\ pc[p] = "done" /\ ~args[p].success /\ resp[p].kind = "charge" /\ resp[p].success
    /\ resp[p].creditsUsed = 0
    /\ row.last_seen = Now(p)
    /\ row.credits_remaining = 0
    /\ row.credits_remaining = resp[p].creditsRemaining
    /\ \E entry \in log_inflight \cup activity_logs : entry.call = p /\ entry.credits_used = 0

\* C20: the step in which the update of a charge is written returns the
\* call's success result with the deduction made, and the step in which
\* the activity_logs insert settles, stored or failed, changes neither a
\* result nor the bindings nor where a call is; so the result and the
\* binding are the same for an insert that is stored, fails or stays in
\* flight
C20_LogNeverFailsCharge ==
  [][/\ \A p \in Requests :
          pc[p] = "c_update" /\ local[p].call.caller = "direct" /\ Steps(p)
          /\ resp'[p] # ChargeFailure("update error")
          => /\ pc'[p] = "done"
             /\ resp'[p].success
             /\ resp'[p].creditsUsed = CreditsToDeduct(local[p].call.endpoint, local[p].call.success)
             /\ (local[p].call.success
                 => BindingOf(device_bindings', p).credits_remaining =
                      local[p].binding.credits_remaining - resp'[p].creditsUsed)
     /\ (log_inflight' \subseteq log_inflight /\ log_inflight' # log_inflight
         => resp' = resp /\ device_bindings' = device_bindings /\ pc' = pc)]_vars

\* reached: a charge of 5 returned success and its deduction stands, and
\* its activity_logs insert failed; another one's insert is still in flight
C20_Witness ==
  \E p, q \in Requests : \E row \in device_bindings :
    /\ pc[p] = "done" /\ resp[p].kind = "charge" /\ resp[p].success /\ resp[p].creditsUsed = 5
    /\ row.credits_remaining = DefaultCredits - 5
    /\ \A entry \in log_inflight \cup activity_logs : entry.call # p
    /\ pc[q] = "done" /\ resp[q].kind = "charge" /\ resp[q].success
    /\ \E entry \in log_inflight : entry.call = q

\* C21 (as claimed): a community request answered 400 (missing communityId)
\* or 500 (the provider call failed) has deducted nothing: no binding
\* carries a deduction written by that request, and when it was the only
\* request, the binding has the credits and the total it started with
C21_ChargeOnlyOnUpstreamSuccess ==
  \A p \in Requests :
    pc[p] = "done" /\ resp[p].kind = "community" /\ resp[p].status \in {400, 500}
    => /\ \A row \in device_bindings : row.last_credit_usage # Now(p)
       /\ ((\A q \in Requests \ {p} : pc[q] = "idle")
           => \A row \in device_bindings :
                row.credits_remaining = DefaultCredits /\ row.total_credits_used = 0)

\* C22 (as claimed): the community handler answers 402 only for a charge
\* refused for its balance; a charge that failed in the store (the select
\* or the update) is not answered 402
C22_PaymentRequiredOnlyWhenInsufficient ==
  \A p \in Requests :
    pc[p] = "done" /\ resp[p].kind = "community" /\ resp[p].status = 402
    => resp[p].message.text = "Insufficient credits"

\* C23 (as claimed): when the community charge is refused for its balance,
\* creditsNeeded of the 402 body and the figure of the message are the cost
\* of the endpoint in the cost table
C23_CreditsNeededIsCost ==
  \A p \in Requests :
    /\ pc[p] = "done" /\ resp[p].kind = "community" /\ resp[p].status = 402
    /\ resp[p].message.text = "Insufficient credits"
    => /\ resp[p].message.need = CREDIT_COSTS["community"]
       /\ resp[p].creditsNeeded = CREDIT_COSTS["community"]

\* C24: a validate whose select on device_bindings fails in the store is
\* answered ERROR with status 500 in that step and goes on to no insert; a
\* validate whose insert fails (in the store, or on the unique constraint)
\* is answered ERROR with status 500 and no token; in both cases the table
\* is as it was
C24_StoreErrorIsError ==
  [][\A p \in Requests :
       /\ pc[p] \in {"v1_fetch", "v2_fetch"} \cup InsertLabels
       /\ Steps(p)
       /\ local'[p].error \in {"storeError", "23505"}
       => /\ pc'[p] = "done"
          /\ resp'[p] = Refusal(500, "ERROR")
          /\ resp'[p].token = NoToken /\ ~resp'[p].valid
          /\ device_bindings' = device_bindings]_vars

\* reached: one validate lost its insert to the unique constraint and
\* another failed in the store while its key has no binding; both were
\* answered ERROR
C24_Witness ==
  \E p, q \in Requests :
    /\ pc[p] = "done" /\ local[p].error = "23505" /\ resp[p] = Refusal(500, "ERROR")
    /\ pc[q] = "done" /\ local[q].error = "storeError" /\ resp[q] = Refusal(500, "ERROR")
    /\ RowsOfKey(device_bindings, args[q].key) = {}

\* the answer without its updateNotification field
Decision(response) == [response EXCEPT !.updateNotification = "none"]

\* C25: whatever the update_notifications lookup returns, the validate that
\* read binding b answers what the binding decides (VALID with a token for
\* the same device, DEVICE_MISMATCH for another one) or goes on to the
\* insert, whose answer is the registration or ERROR and whose write is the
\* new binding or nothing; updateNotification is only on VALID answers
C25_NotificationNeverDecides ==
  [][\A p \in Requests :
       LET key == args[p].key
           deviceId == args[p].deviceId
           decision == BindingDecision(local[p].binding, key, deviceId)
       IN /\ (pc[p] = "v2_notification" /\ Steps(p)
              => /\ device_bindings' = device_bindings
                 /\ IF decision = NoResp
                      THEN pc'[p] = "v2_insert" /\ resp'[p] = resp[p]
                      ELSE pc'[p] = "done" /\ Decision(resp'[p]) = decision)
          /\ (pc[p] = "v2_insert" /\ Steps(p)
              => /\ pc'[p] = "done"
                 /\ \/ /\ Decision(resp'[p]) = RegisteredResponse(key, deviceId)
                       /\ device_bindings' = device_bindings \cup {NewBinding(key, deviceId)}
                       /\ RowsOfKey(device_bindings, key) = {}
                    \/ /\ resp'[p] = Refusal(500, "ERROR")
                       /\ device_bindings' = device_bindings)
          /\ (resp'[p].updateNotification # "none" => resp'[p].valid /\ resp'[p].reason = "VALID")]_vars

\* reached: the same validate was answered VALID once with and once
\* without a notification
C25_Witness ==
  \E p, q \in Requests :
    /\ pc[p] = "done" /\ resp[p].valid /\ resp[p].updateNotification # "none"
    /\ pc[q] = "done" /\ resp[q].valid /\ resp[q].updateNotification = "none"
    /\ args[p] = args[q] /\ p # q

\* C26: a refill that finds the binding reads its balance b; when its update
\* is written the balance is b + amount for a positive amount and |amount|
\* for a negative one, no other field and no other row changes, and the
\* call returns previousBalance = b and the new balance; a refill that finds
\* no binding, or whose update fails, returns failure and writes nothing
C26_RefillSetsOrAdds ==
  [][\A p \in Requests :
       LET row == BindingOf(device_bindings, p)
           after == BindingOf(device_bindings', p)
           b == local[p].binding.credits_remaining
           amount == args[p].amount
       IN /\ (pc[p] = "r_fetch" /\ Steps(p)
              => /\ device_bindings' = device_bindings
                 /\ IF pc'[p] = "done"
                      THEN ~resp'[p].success
                      ELSE /\ row # NoRow
                           /\ local'[p].binding.credits_remaining = row.credits_remaining)
          /\ (pc[p] = "r_update" /\ Steps(p)
              => /\ pc'[p] = "done"
                 /\ IF resp'[p].success
                      THEN /\ after = [row EXCEPT !.credits_remaining =
                                         IF amount < 0 THEN -amount ELSE b + amount]
                           /\ device_bindings' \ {after} = device_bindings \ {row}
                           /\ resp'[p].previousBalance = b
                           /\ resp'[p].newBalance = after.credits_remaining
                      ELSE device_bindings' = device_bindings)]_vars

\* reached: the balance was set to 3 by refill(-3) and then raised to 5 by
\* refill(2)
C26_Witness ==
  \E p, q \in Requests : \E row \in device_bindings :
    /\ pc[p] = "done" /\ args[p] = RefillRequest(K1, D1, -3) /\ resp[p].success
    /\ resp[p].previousBalance = DefaultCredits /\ resp[p].newBalance = 3
    /\ pc[q] = "done" /\ args[q] = RefillRequest(K1, D1, 2) /\ resp[q].success
    /\ resp[q].previousBalance = 3 /\ resp[q].newBalance = 5
    /\ row.license_key = K1 /\ row.credits_remaining = 5

\* refill q was applied right after the same refill p: both succeeded and q
\* found the balance p had set
Repeats(p, q) ==
  /\ p # q /\ pc[p] = "done" /\ pc[q] = "done"
  /\ resp[p].kind = "refill" /\ resp[q].kind = "refill"
  /\ args[p] = args[q]
  /\ resp[p].success /\ resp[q].success
  /\ resp[q].previousBalance = resp[p].newBalance

\* C27 (as claimed): the same refill applied twice in a row leaves the
\* balance the first application left
C27_RefillIdempotent ==
  \A p, q \in Requests : Repeats(p, q) => resp[q].newBalance = resp[p].newBalance

\* C27 (amended): a refill with a negative amount (set) applied twice in a
\* row leaves the balance the first application left; a refill with a
\* positive amount (add) applied twice in a row adds the amount twice
C27_RefillSetIdempotentAddNot ==
  \A p, q \in Requests :
    Repeats(p, q)
    => IF args[p].amount < 0
         THEN resp[q].newBalance = resp[p].newBalance
         ELSE resp[q].newBalance = resp[p].newBalance + args[p].amount

\* reached: refill(-3) was applied twice in a row and the balance is 3
C27_Witness ==
  \E p, q \in Requests : \E row \in device_bindings :
    /\ Repeats(p, q) /\ args[p] = RefillRequest(K1, D1, -3)
    /\ resp[q].newBalance = 3 /\ row.license_key = K1 /\ row.credits_remaining = 3

\* the rows of a set that are newer than row
NewerThan(rows, row) == {o \in rows : o.created_at > row.created_at}

\* C28: when the select of a browse by device D returns, every row of the
\* answer is owned by D (own = true) or is public and owned by another
\* device (otherwise), so no private config of another device is in it; the
\* row at place i of page p with limit n is the row of that selection with
\* exactly (p - 1) * n + i - 1 newer rows in it, and the page holds as many
\* rows as the selection has at the positions (p - 1) * n .. p * n - 1
C28_Browse ==
  [][\A p \in Requests :
       pc[p] = "s_browse" /\ Steps(p) /\ local'[p].error # "storeError"
       => LET D == Owner(p)
              own == args[p].own
              page == IF args[p].page = 0 THEN 1 ELSE args[p].page
              n == IF args[p].limit = 0 THEN 20 ELSE args[p].limit
              selection == {r \in shared_configs :
                              IF own THEN r.device_id = D
                                     ELSE r.is_public /\ r.device_id # D}
              configs == resp'[p].configs
              rest == Cardinality(selection) - (page - 1) * n
          IN /\ pc'[p] = "done" /\ resp'[p].status = 200
             /\ \A i \in DOMAIN configs :
                  /\ configs[i] \in selection
                  /\ configs[i].device_id = D \/ configs[i].is_public
                  /\ Cardinality(NewerThan(selection, configs[i])) = (page - 1) * n + i - 1
             /\ Len(configs) = IF rest < 0 THEN 0 ELSE IF rest < n THEN rest ELSE n
             /\ shared_configs' = shared_configs]_vars

\* reached: D2's browse of the others' configs (page 1 of 1 row) shows B,
\* not the private A, and D2's own configs on page 2 of 1 row show the
\* older one, C
C28_Witness ==
  \E p, q \in Requests :
    /\ pc[p] = "done" /\ args[p] = BrowsePage(D2, FALSE, 1, 1)
    /\ resp[p].status = 200 /\ resp[p].configs = <<ConfigB>>
    /\ pc[q] = "done" /\ args[q] = BrowsePage(D2, TRUE, 2, 1)
    /\ resp[q].status = 200 /\ resp[q].configs = <<ConfigC>>

\* the token is one validate minted: signed with the secret for the purpose
\* honed-license, with the deviceId claim
Minted(token) ==
  token.sig = "secretKey" /\ token.purpose = "honed-license" /\ token.deviceId # NoDevice

\* C29 (as claimed): a request to a token-checking handler (community,
\* supabase, config-share) with a token validate minted is answered 401
\* exactly when 5 minutes or more have passed since the token was minted,
\* whether or not the key has been revoked since
C29_AcceptedUntilExpiry ==
  \A p \in Requests :
    pc[p] # "idle" /\ Gated(args[p]) /\ Minted(args[p].token)
    => ((pc[p] = "done" /\ resp[p].status = 401) <=> args[p].elapsed >= TokenLifetime)

\* the requests for this action on this config that were answered 200
Succeeded(action, configId) ==
  {p \in Requests : /\ pc[p] = "done" /\ args[p].action = action /\ args[p].configId = configId
                    /\ resp[p].kind = "share" /\ resp[p].status = 200}

\* C30 (as claimed): once every request has been answered, view_count of a
\* config is its initial value (0) plus the number of previews of it that
\* returned success, and copy_count the same for copies
C30_CountersCountSuccesses ==
  (\A p \in Requests : pc[p] \in {"idle", "done"})
  => \A row \in shared_configs :
       /\ row.view_count = Cardinality(Succeeded("preview", row.id))
       /\ row.copy_count = Cardinality(Succeeded("copy", row.id))

(***************************************************************************)
(* C31: the key-device association is 1:1 in every reachable state: one    *)
(* device id is bound to at most one license key, so validating an unbound *)
(* valid key for a device that is already bound to another key creates no  *)
(* second binding for that device.                                         *)
(***************************************************************************)
C31_OneKeyPerDevice ==
  \A r \in device_bindings : \A o \in device_bindings :
    r.device_id = o.device_id => r.license_key = o.license_key

(***************************************************************************)
(* Properties of concurrent charges and refills.                           *)
(***************************************************************************)
\* credits_remaining + total_credits_used of a row
Worth(row) == row.credits_remaining + row.total_credits_used

\* C32: while only charges run, every step leaves every binding in the
\* table with the same credits_remaining + total_credits_used, in every
\* interleaving of the charges' selects and updates (an update writes both
\* columns from the one row its select returned)
C32_ChargesKeepWorth ==
  [][\A row \in device_bindings :
       LET after == RowOf(device_bindings', row.license_key, row.device_id)
       IN after # NoRow /\ Worth(after) = Worth(row)]_vars

\* reached: two charges of the same binding both returned success, the
\* update of one overwrote the other's (total_credits_used is less than
\* what the two were charged), and the row is worth its first credits
C32_Witness ==
  \E p, q \in Requests : \E row \in device_bindings :
    /\ p # q /\ pc[p] = "done" /\ pc[q] = "done"
    /\ resp[p].kind = "charge" /\ resp[p].success /\ args[p].success
    /\ resp[q].kind = "charge" /\ resp[q].success /\ args[q].success
    /\ row.total_credits_used < resp[p].creditsUsed + resp[q].creditsUsed
    /\ Worth(row) = DefaultCredits

\* C33: a validate response that carries a token has valid = true, the token
\* is the one minted for the key and the device of the request, and in the
\* state in which it is sent device_bindings holds exactly one row of the
\* key and that row has the device of the request; a response with
\* valid = false carries no token
C33_TokenOnlyForBoundDevice ==
  [][\A p \in Requests :
       Answers(p) /\ resp'[p].kind = "validate"
       => /\ (resp'[p].token # NoToken
              => /\ resp'[p].valid
                 /\ resp'[p].token = generateToken(args'[p].key, args'[p].deviceId)
                 /\ Single(RowsOfKey(device_bindings', args'[p].key)) # NoRow
                 /\ Single(RowsOfKey(device_bindings', args'[p].key)).device_id
                      = args'[p].deviceId)
          /\ (~resp'[p].valid => resp'[p].token = NoToken)]_vars

\* reached: one validate registered its device and got a token, the binding
\* is in the table, and a validate of the same key for another device was
\* answered DEVICE_MISMATCH without a token
C33_Witness ==
  \E p, q \in Requests :
    /\ pc[p] = "done" /\ resp[p].kind = "validate" /\ resp[p].valid
    /\ resp[p].token = generateToken(args[p].key, args[p].deviceId)
    /\ Single(RowsOfKey(device_bindings, args[p].key)).device_id = args[p].deviceId
    /\ pc[q] = "done" /\ resp[q].kind = "validate" /\ resp[q].reason = "DEVICE_MISMATCH"
    /\ args[q].key = args[p].key /\ args[q].deviceId # args[p].deviceId
    /\ resp[q].token = NoToken

\* the rows of the table other than the row of (licenseKey, deviceId)
OtherRows(table, licenseKey, deviceId) == table \ RowsOfKeyDevice(table, licenseKey, deviceId)

\* C34: every step of a charge or a refill called for (K, D) leaves the
\* rows other than the row of (K, D) as they are, and adds and removes no
\* row; when the table has no row of (K, D) as the call's select is
\* answered, the call returns failure with 'Device binding not found' in
\* that step and the table is unchanged
C34_OnlyTheNamedRow ==
  [][\A p \in Requests :
       pc[p] \in {"c_fetch", "c_update", "r_fetch", "r_update"} /\ Steps(p)
       /\ local[p].call.caller = "direct"
       => LET K == local[p].call.licenseKey
              D == local[p].call.deviceId
          IN /\ OtherRows(device_bindings', K, D) = OtherRows(device_bindings, K, D)
             /\ Cardinality(RowsOfKeyDevice(device_bindings', K, D))
                  = Cardinality(RowsOfKeyDevice(device_bindings, K, D))
             /\ (pc[p] \in {"c_fetch", "r_fetch"} /\ RowsOfKeyDevice(device_bindings, K, D) = {}
                 => /\ pc'[p] = "done"
                    /\ device_bindings' = device_bindings
                    /\ ~resp'[p].success
                    /\ resp'[p] = IF pc[p] = "c_fetch"
                                    THEN ChargeFailure("Device binding not found")
                                    ELSE RefillResult(FALSE, "Device binding not found",
                                                      "undefined", "undefined"))]_vars

\* reached: a call changed the row of K1, the row of KF (bound to the
\* device of K1) is as it was, the table has its three rows, and a charge
\* for K1 with the device of KR was answered 'Device binding not found'
C34_Witness ==
  \E p \in Requests :
    /\ pc[p] = "done" /\ args[p].key = K1 /\ args[p].deviceId = D2
    /\ resp[p] = ChargeFailure("Device binding not found")
    /\ NewBinding(KF, D1) \in device_bindings
    /\ RowOf(device_bindings, K1, D1) # NewBinding(K1, D1)
    /\ Cardinality(device_bindings) = 3

\* C35 (as claimed): the tracking update of a community request leaves
\* license_key, device_id, credits_remaining, total_credits_used and
\* last_credit_usage of every binding as they are, adds and removes no row,
\* and changes no binding other than one of the device of the token whose
\* license key has the prefix the token carries (bindings of other license
\* keys on the same device are unchanged)
C35_TrackingOnlyOwnBinding ==
  [][\A p \in Requests :
       pc[p] = "m_track" /\ Steps(p)
       => /\ Cardinality(device_bindings') = Cardinality(device_bindings)
          /\ \A row \in device_bindings :
               LET after == RowOf(device_bindings', row.license_key, row.device_id)
               IN /\ after # NoRow
                  /\ after.credits_remaining = row.credits_remaining
                  /\ after.total_credits_used = row.total_credits_used
                  /\ after.last_credit_usage = row.last_credit_usage
                  /\ (after # row
                      => /\ row.device_id = args[p].token.deviceId
                         /\ PartialKey(row.license_key) = args[p].token.licenseKey)]_vars

\* C36 (as claimed): when a refill that adds a and a successful charge of
\* cost c on the binding of (K1, D1) have both returned success and no other
\* call was made, the balance of the binding is its first credits + a - c,
\* however the selects and updates of the two were interleaved
C36_RefillAndChargeBothCount ==
  \A p, q \in Requests :
    /\ pc[p] = "done" /\ resp[p].kind = "charge" /\ resp[p].success /\ args[p].success
    /\ pc[q] = "done" /\ resp[q].kind = "refill" /\ resp[q].success /\ args[q].amount > 0
    /\ \A o \in Requests \ {p, q} : pc[o] = "idle"
    => RowOf(device_bindings, K1, D1).credits_remaining
         = DefaultCredits + args[q].amount - resp[p].creditsUsed

\* the activity log entries of call p, stored or still in flight
EntriesOf(p) == {entry \in activity_logs \cup log_inflight : entry.call = p}

\* the calls whose binding update the store has written
Committed == {p \in Requests : pc[p] = "done" /\ resp[p].kind = "charge" /\ resp[p].success}

\* C37: an activity log entry is dispatched only in the step in which the
\* binding update of its charge is written (the row then carries the stamp
\* of the call and the call returns success); in every state the entries,
\* stored or in flight, are at most one per written update, and a charge
\* that returned failure has none
C37_LogOnlyAfterCommit ==
  [][/\ \A entry \in (activity_logs' \cup log_inflight') \ (activity_logs \cup log_inflight) :
          /\ pc[entry.call] = "c_update" /\ pc'[entry.call] = "done"
          /\ resp'[entry.call].success
          /\ BindingOf(device_bindings, entry.call).last_seen # Now(entry.call)
          /\ BindingOf(device_bindings', entry.call).last_seen = Now(entry.call)
     /\ Cardinality(activity_logs') <= Cardinality(Committed')
     /\ Cardinality(activity_logs' \cup log_inflight') <= Cardinality(Committed')
     /\ \A p \in Requests :
          pc'[p] = "done" /\ ~resp'[p].success => EntriesOf(p)' = {}]_vars

\* reached: the entry of a charge whose update was written is stored, and
\* another charge, refused for its balance or with its update rejected,
\* returned failure and has no entry
C37_Witness ==
  \E p \in Committed :
    /\ \E entry \in activity_logs : entry.call = p
    /\ \E q \in Requests :
         /\ pc[q] = "done" /\ ~resp[q].success /\ EntriesOf(q) = {}
         /\ resp[q].error.text \in {"Insufficient credits", "update error"}

\* the update of call p was not written in this step: the row does not
\* carry the stamp of the call
Rejected(p) == BindingOf(device_bindings', p).last_seen # Now(p)

\* C38: when the store rejects the binding update of a charge, the call
\* returns in that step with success false and creditsRemaining null, the
\* table (so the balance and total_credits_used of the binding) is as it
\* was, and no activity log entry is dispatched, then or later; and an
\* update step that returns failure has written nothing
C38_RejectedUpdateChangesNothing ==
  [][\A p \in Requests :
       pc[p] = "c_update" /\ Steps(p) /\ local[p].call.caller = "direct"
       => /\ pc'[p] = "done"
          /\ resp'[p].success = ~Rejected(p)
          /\ (Rejected(p)
              => /\ resp'[p] = ChargeFailure("update error")
                 /\ resp'[p].creditsRemaining = "null"
                 /\ device_bindings' = device_bindings
                 /\ log_inflight' = log_inflight /\ activity_logs' = activity_logs
                 /\ EntriesOf(p)' = {})
          /\ \A q \in Requests :
               pc[q] = "done" /\ resp[q] = ChargeFailure("update error")
               => EntriesOf(q)' = {}]_vars

\* reached: the update of a charge of 5 was rejected, the call returned
\* failure with creditsRemaining null, the binding has its first credits
\* and nothing used, and the call has no activity log entry
C38_Witness ==
  \E p \in Requests :
    /\ pc[p] = "done" /\ args[p].endpoint = "community" /\ args[p].success
    /\ resp[p] = ChargeFailure("update error")
    /\ RowOf(device_bindings, K1, D1).credits_remaining = DefaultCredits
    /\ RowOf(device_bindings, K1, D1).total_credits_used = 0
    /\ EntriesOf(p) = {}

=============================================================================
